---- MODULE Spec2Model ----
(***************************************************************************)
(* ShaggyAI reliability layer: ProductScope, CapabilityRegistry, JsonGuard  *)
(* and SemanticRouter (src/app/product_scope.py, capability_registry.py,    *)
(* json_guard.py, semantic_router.py).                                      *)
(*                                                                         *)
(* Python values are represented as follows.                               *)
(*   - a list is a sequence, a set is a set, a dict is a sequence of       *)
(*     entries in insertion order;                                         *)
(*   - None is the string "None" where a string is expected;               *)
(*   - an exception leaving a call is recorded in the variable that holds  *)
(*     the outcome of that call (reload_raised, result.raised).            *)
(***************************************************************************)
EXTENDS Integers, Sequences, FiniteSets, TLC

(***************************************************************************)
(* Bound of the generated registry documents: the length of a fallback_to  *)
(* list.                                                                   *)
(***************************************************************************)
MaxFallbacks == 2

(***************************************************************************)
(* Generic list helpers.                                                   *)
(***************************************************************************)
Range(s) == {s[i] : i \in 1..Len(s)}

SeqsUpTo(S, n) == UNION {[1..k -> S] : k \in 0..n}

NoDup(s) == \A i, j \in 1..Len(s) : s[i] = s[j] => i = j

\* [x for x in s if x in S]
RECURSIVE FilterIn(_, _)
FilterIn(s, S) ==
    IF s = <<>> THEN <<>>
    ELSE IF Head(s) \in S THEN <<Head(s)>> \o FilterIn(Tail(s), S)
    ELSE FilterIn(Tail(s), S)

(***************************************************************************)
(* Capability ids named in the sources.                                    *)
(***************************************************************************)
GenIds == {"web_search_news", "web_search_general"}
FallbackTargets == GenIds \cup {"chat_general"}
LookupIds == FallbackTargets \cup {"get_current_datetime"}

(***************************************************************************)
(* The scope document PRODUCT_SCOPE.md as ProductScope.reload reads it:    *)
(* whether the file exists and, in order, the spans of text written        *)
(* between backticks.  _CAPABILITY_RE = `([a-z0-9_]+)` takes the span when  *)
(* it is made of lowercase letters, digits and underscores only.           *)
(***************************************************************************)
IdSpans == {"chat_general", "get_current_datetime", "web_search_general",
                    "web_search_news", "memory_purge_all", "memory_store_user_fact",
                    "memory_recall_profile", "memory_update_user_fact",
                    "memory_delete_user_fact", "memory_retrieval", "memory_store_summary",
                    "reminder_create", "reminder_list", "reminder_delete",
                    "reminder_update", "reminder_postpone", "tool_x"}

\* A backticked span that _CAPABILITY_RE rejects (capital letters, a dash).
BadSpan == "Chat-General"

ScopeDoc(exists, spans) == [exists |-> exists, spans |-> spans]

ScopeMissing == ScopeDoc(FALSE, <<>>)
ScopeEmptyText == ScopeDoc(TRUE, <<BadSpan>>)
ScopeChatOnly == ScopeDoc(TRUE, <<"chat_general">>)
ScopeNoChat == ScopeDoc(TRUE, <<"web_search_general", "web_search_news", BadSpan>>)
ScopeCore == ScopeDoc(TRUE, <<"chat_general", "web_search_general", "get_current_datetime",
                              "chat_general">>)
ScopeFull == ScopeDoc(TRUE, <<"chat_general", "get_current_datetime", "web_search_general",
                              "web_search_news", "memory_purge_all", "memory_store_user_fact",
                              "memory_delete_user_fact", "reminder_create",
                              "reminder_update", "reminder_postpone", "tool_x">>)

ScopeDocs == {ScopeMissing, ScopeEmptyText, ScopeChatOnly, ScopeNoChat, ScopeCore, ScopeFull}

(***************************************************************************)
(* The registry document CAPABILITIES.yaml as CapabilityRegistry.reload    *)
(* reads it.  kind is what the file holds:                                 *)
(*   "missing"     the path does not exist                                 *)
(*   "unparsable"  text that is not YAML (yaml.safe_load raises YAMLError) *)
(*   "null"        YAML whose value is falsy (empty file, null, 0, [])     *)
(*   "number"      a truthy scalar that is no container (42, true)         *)
(*   "text"        a string scalar                                         *)
(*   "list"        a non-empty list                                        *)
(*   "mapping"     a mapping with the keys in `keys`                       *)
(* member says whether "updated_at" in data holds for a text or a list.    *)
(***************************************************************************)
Cap(id, phase, fallback_to) == [id |-> id, phase |-> phase, fallback_to |-> fallback_to]

RegistryDoc(kind, member, keys, version, updated_at, capabilities) ==
    [kind |-> kind, member |-> member, keys |-> keys, version |-> version,
     updated_at |-> updated_at, capabilities |-> capabilities]

AllKeys == {"version", "updated_at", "capabilities"}

MappingDoc(version, updated_at, capabilities) ==
    RegistryDoc("mapping", FALSE, AllKeys, version, updated_at, capabilities)

OtherDoc(kind, member) == RegistryDoc(kind, member, {}, 0, "", <<>>)

DocMissing == OtherDoc("missing", FALSE)
DocUnparsable == OtherDoc("unparsable", FALSE)
DocNull == OtherDoc("null", FALSE)
DocNumber == OtherDoc("number", FALSE)
DocText == OtherDoc("text", FALSE)
DocTextUpdatedAt == OtherDoc("text", TRUE)
DocList == OtherDoc("list", FALSE)
DocListUpdatedAt == OtherDoc("list", TRUE)
DocNoVersion ==
    RegistryDoc("mapping", FALSE, {"updated_at", "capabilities"}, 0, "2026-02-03",
                <<Cap("chat_general", 1, <<>>)>>)
DocNoUpdatedAt ==
    RegistryDoc("mapping", FALSE, {"version", "capabilities"}, 3, "",
                <<Cap("chat_general", 1, <<>>)>>)
DocBadPhase ==
    MappingDoc(4, "2026-02-04", <<Cap("chat_general", 1, <<>>), Cap("web_search_general", 0, <<>>)>>)

\* A well-formed catalogue with a duplicate id and fallback chains.
DocCatalog ==
    MappingDoc(2, "2026-02-02",
        <<Cap("chat_general", 1, <<>>),
          Cap("get_current_datetime", 1, <<"chat_general">>),
          Cap("web_search_general", 1, <<"chat_general">>),
          Cap("web_search_news", 1, <<"web_search_general", "web_search_news",
                                      "tool_y", "web_search_general", "chat_general">>),
          Cap("chat_general", 2, <<"web_search_general">>),
          Cap("memory_purge_all", 2, <<"chat_general">>),
          Cap("memory_store_user_fact", 2, <<"memory_store_summary", "chat_general">>),
          Cap("memory_delete_user_fact", 2, <<>>),
          Cap("reminder_create", 2, <<>>),
          Cap("reminder_update", 2, <<>>),
          Cap("reminder_postpone", 2, <<>>)>>)

\* A well-formed catalogue that does not list chat_general.
DocNoChat ==
    MappingDoc(5, "2026-02-05",
        <<Cap("web_search_general", 1, <<"chat_general">>),
          Cap("get_current_datetime", 1, <<>>)>>)

FailingDocs == {DocMissing, DocUnparsable, DocNull, DocNumber, DocText, DocTextUpdatedAt,
                DocList, DocListUpdatedAt, DocNoVersion, DocNoUpdatedAt, DocBadPhase}

ReloadDocs == FailingDocs \cup {DocCatalog, DocNoChat}

\* Generated well-formed documents: no entry, one entry with up to MaxFallbacks
\* fallback ids, or such an entry followed by a second one (possibly of the same
\* id) with at most one fallback id.
GenCaps == {Cap(id, 1, fb) : id \in GenIds, fb \in SeqsUpTo(FallbackTargets, MaxFallbacks)}
GenCapsShort == {Cap(id, 1, fb) : id \in GenIds, fb \in SeqsUpTo(FallbackTargets, 1)}
GenDocs ==
    {MappingDoc(1, "2026-02-01", <<>>)}
    \cup {MappingDoc(1, "2026-02-01", <<c>>) : c \in GenCaps}
    \cup {MappingDoc(1, "2026-02-01", <<c, d>>) : c \in GenCaps, d \in GenCapsShort}

(***************************************************************************)
(* State.                                                                  *)
(*   scope_capabilities   ProductScope.capabilities                        *)
(*   reg_product_scope    whether the registry was built with the scope     *)
(*                        attached (product_scope is not None)             *)
(*   reg_version, reg_updated_at, reg_capabilities                         *)
(*                        CapabilityRegistry.version, .updated_at and      *)
(*                        ._capabilities (entries in insertion order)      *)
(*   reload_raised        the exception that left the last reload() call,  *)
(*                        "none" if it returned                            *)
(*   lookup               the last registry query and its result           *)
(*   pc                   "idle", or "awaiting" while a call of route() or *)
(*                        generate_validated_json() waits for the model    *)
(*   call                 the call in progress or last made: its kind,     *)
(*                        message and max_retries                          *)
(*   prompt               what the user prompt of the call was built from  *)
(*   heuristic            the local variable heuristic of route()          *)
(*   attempt              the loop variable of generate_validated_json     *)
(*   messages             the messages of the model call awaited           *)
(*   system_prompt        the system prompt of the model call awaited      *)
(*   llm_calls            the number of model calls the call has made      *)
(*   outputs, last_error  JsonGuardTrace.outputs and .last_error; the trace *)
(*                        of a route() call ends with the call             *)
(*   result               what the last call returned or raised            *)
(***************************************************************************)
VARIABLES scope_capabilities, reg_product_scope, reg_version, reg_updated_at,
          reg_capabilities, reload_raised, lookup,
          pc, call, prompt, heuristic, attempt, messages, system_prompt, llm_calls,
          outputs, last_error, result

regVars == <<reg_product_scope, reg_version, reg_updated_at, reg_capabilities>>
callVars == <<pc, call, prompt, heuristic, attempt, messages, system_prompt, llm_calls,
              outputs, last_error, result>>
vars == <<scope_capabilities, regVars, reload_raised, lookup, callVars>>

(***************************************************************************)
(* ProductScope                                                            *)
(***************************************************************************)
\* ProductScope.reload: the new value of capabilities.
scope_reload_result(doc) ==
    IF ~doc.exists THEN {}
    ELSE {doc.spans[i] : i \in {j \in 1..Len(doc.spans) : doc.spans[j] \in IdSpans}}

is_allowed(capability_id) == capability_id \in scope_capabilities

\* A wrong variant of the loop of filter_allowed, which does not remember the ids
\* it has met: a repeated allowed id is kept at each occurrence.
RECURSIVE filter_allowed_loop_repeating(_, _, _)
filter_allowed_loop_repeating(capability_ids, filtered, seen) ==
    IF capability_ids = <<>> THEN filtered
    ELSE filter_allowed_loop_repeating(
             Tail(capability_ids),
             IF Head(capability_ids) \in scope_capabilities
             THEN Append(filtered, Head(capability_ids)) ELSE filtered,
             seen)

\* ProductScope.filter_allowed with the loop state (filtered, seen) made explicit.
RECURSIVE filter_allowed_loop(_, _, _)
filter_allowed_loop(capability_ids, filtered, seen) ==
    IF capability_ids = <<>> THEN filtered
    ELSE LET capability_id == Head(capability_ids) IN
         IF capability_id \in seen
         THEN filter_allowed_loop(Tail(capability_ids), filtered, seen)
         ELSE filter_allowed_loop(
                 Tail(capability_ids),
                 IF capability_id \in scope_capabilities
                 THEN Append(filtered, capability_id) ELSE filtered,
                 seen \cup {capability_id})

filter_allowed(capability_ids) == filter_allowed_loop(capability_ids, <<>>, {})

\* A wrong variant of filter_allowed, which narrows the scope's own set to the
\* ids it was given.
scope_narrowed_by_filter(capability_ids) == scope_capabilities \cap Range(capability_ids)

\* ProductScope.capabilities after filter_allowed(capability_ids): the ids met go
\* to the local set seen, the scope's own set is only read.
scope_after_filter_allowed(capability_ids) == scope_capabilities

(***************************************************************************)
(* CapabilityRegistry                                                      *)
(***************************************************************************)
\* CapabilityRegistryFile.model_validate(data): the three fields are required
\* and every capability needs phase >= 1; anything that is not a mapping fails.
model_validate_ok(doc) ==
    /\ doc.kind = "mapping"
    /\ AllKeys \subseteq doc.keys
    /\ \A i \in 1..Len(doc.capabilities) : doc.capabilities[i].phase >= 1

\* The loop of reload() that drops later duplicates of an id.
RECURSIVE dedup_capabilities(_, _, _)
dedup_capabilities(parsed, ids_seen, capabilities) ==
    IF parsed = <<>> THEN capabilities
    ELSE LET capability == Head(parsed) IN
         IF capability.id \in ids_seen
         THEN dedup_capabilities(Tail(parsed), ids_seen, capabilities)
         ELSE dedup_capabilities(Tail(parsed), ids_seen \cup {capability.id},
                                 Append(capabilities, capability))

Snapshot(raised, version, updated_at, capabilities) ==
    [raised |-> raised, version |-> version, updated_at |-> updated_at,
     capabilities |-> capabilities]

\* CapabilityRegistry.reload on document doc, from the fields cur of the object:
\* the exception raised ("none" if it returns) and the fields afterwards.
reload_result(cur, doc) ==
    IF doc.kind = "missing"
    THEN Snapshot("none", cur.version, cur.updated_at, <<>>)
    ELSE IF doc.kind = "unparsable"
    THEN \* yaml.safe_load raises; nothing has been assigned yet
         Snapshot("YAMLError", cur.version, cur.updated_at, cur.capabilities)
    ELSE IF doc.kind = "number" \/ (doc.kind \in {"text", "list"} /\ doc.member)
    THEN \* "updated_at" in data, or data["updated_at"], is a TypeError
         Snapshot("TypeError", cur.version, cur.updated_at, cur.capabilities)
    ELSE IF ~model_validate_ok(doc)
    THEN Snapshot("none", cur.version, cur.updated_at, <<>>)
    ELSE Snapshot("none", doc.version, doc.updated_at,
                  dedup_capabilities(doc.capabilities, {}, <<>>))

CurrentSnapshot == Snapshot(reload_raised, reg_version, reg_updated_at, reg_capabilities)

\* The fields __init__ assigns before it calls reload().
FreshSnapshot == Snapshot("none", 0, "", <<>>)

NoneCap == Cap("None", 0, <<>>)

registry_keys == {reg_capabilities[i].id : i \in 1..Len(reg_capabilities)}

\* self._capabilities.get(capability_id)
capabilities_get(capability_id) ==
    IF capability_id \in registry_keys
    THEN CHOOSE c \in Range(reg_capabilities) : c.id = capability_id
    ELSE NoneCap

\* A wrong variant of get, which does not ask the scope.
get_without_scope(capability_id) == capabilities_get(capability_id)

get(capability_id) ==
    LET capability == capabilities_get(capability_id) IN
    IF capability = NoneCap THEN NoneCap
    ELSE IF reg_product_scope /\ ~is_allowed(capability_id) THEN NoneCap
    ELSE capability

RECURSIVE all_ids_from(_)
all_ids_from(capabilities) ==
    IF capabilities = <<>> THEN <<>>
    ELSE IF is_allowed(Head(capabilities).id)
    THEN <<Head(capabilities).id>> \o all_ids_from(Tail(capabilities))
    ELSE all_ids_from(Tail(capabilities))

\* A wrong variant of all_ids, which takes a scope that lists nothing for no
\* scope at all.
all_ids_without_empty_scope ==
    IF ~reg_product_scope \/ scope_capabilities = {}
    THEN [i \in 1..Len(reg_capabilities) |-> reg_capabilities[i].id]
    ELSE FilterIn([i \in 1..Len(reg_capabilities) |-> reg_capabilities[i].id],
                  scope_capabilities)

all_ids ==
    IF ~reg_product_scope
    THEN [i \in 1..Len(reg_capabilities) |-> reg_capabilities[i].id]
    ELSE all_ids_from(reg_capabilities)

\* A wrong variant of the loop of resolve_chain, which does not skip the ids
\* already in the chain.
RECURSIVE resolve_chain_loop_repeating(_, _, _)
resolve_chain_loop_repeating(fallback_to, chain, seen) ==
    IF fallback_to = <<>> THEN chain
    ELSE IF capabilities_get(Head(fallback_to)) # NoneCap
            /\ (~reg_product_scope \/ is_allowed(Head(fallback_to)))
    THEN resolve_chain_loop_repeating(Tail(fallback_to), Append(chain, Head(fallback_to)), seen)
    ELSE resolve_chain_loop_repeating(Tail(fallback_to), chain, seen)

\* The loop of resolve_chain over first.fallback_to.
RECURSIVE resolve_chain_loop(_, _, _)
resolve_chain_loop(fallback_to, chain, seen) ==
    IF fallback_to = <<>> THEN chain
    ELSE LET fallback_id == Head(fallback_to) IN
         IF fallback_id \in seen
         THEN resolve_chain_loop(Tail(fallback_to), chain, seen)
         ELSE IF get(fallback_id) # NoneCap
         THEN resolve_chain_loop(Tail(fallback_to), Append(chain, fallback_id),
                                 seen \cup {fallback_id})
         ELSE resolve_chain_loop(Tail(fallback_to), chain, seen)

resolve_chain(primary_capability) ==
    LET first == get(primary_capability) IN
    IF first = NoneCap THEN <<>>
    ELSE resolve_chain_loop(first.fallback_to, <<primary_capability>>, {primary_capability})

(***************************************************************************)
(* Actions on the registry and the scope.                                  *)
(***************************************************************************)
\* The last query made: the operation, its argument (an id, or the list input),
\* and what it returned.
Lookup(op, arg, input, found, ids) ==
    [op |-> op, arg |-> arg, input |-> input, found |-> found, ids |-> ids]
NoLookup == Lookup("none", "", <<>>, FALSE, <<>>)

\* ProductScope.reload()
ScopeReloadWith(doc) ==
    /\ scope_capabilities' = scope_reload_result(doc)
    /\ lookup' = NoLookup
    /\ UNCHANGED <<regVars, reload_raised, callVars>>

\* CapabilityRegistry.reload()
RegistryReloadWith(doc) ==
    LET r == reload_result(CurrentSnapshot, doc) IN
    /\ reload_raised' = r.raised
    /\ reg_version' = r.version
    /\ reg_updated_at' = r.updated_at
    /\ reg_capabilities' = r.capabilities
    /\ lookup' = NoLookup
    /\ UNCHANGED <<scope_capabilities, reg_product_scope, callVars>>

LookupGet(id) ==
    /\ lookup' = Lookup("get", id, <<>>, get(id) # NoneCap, <<>>)
    /\ UNCHANGED <<scope_capabilities, regVars, reload_raised, callVars>>

LookupAllIds ==
    /\ lookup' = Lookup("all_ids", "", <<>>, TRUE, all_ids)
    /\ UNCHANGED <<scope_capabilities, regVars, reload_raised, callVars>>

LookupResolveChain(id) ==
    /\ lookup' = Lookup("resolve_chain", id, <<>>, get(id) # NoneCap, resolve_chain(id))
    /\ UNCHANGED <<scope_capabilities, regVars, reload_raised, callVars>>

\* ProductScope.filter_allowed(capability_ids)
LookupFilterAllowed(capability_ids) ==
    /\ lookup' = Lookup("filter_allowed", "", capability_ids, TRUE,
                        filter_allowed(capability_ids))
    /\ scope_capabilities' = scope_after_filter_allowed(capability_ids)
    /\ UNCHANGED <<regVars, reload_raised, callVars>>

\* The state after ProductScope(path) and CapabilityRegistry(path, product_scope)
\* have been constructed from the documents.
InitRegistryFrom(regDocs, scopeDocs, attachments) ==
    /\ \E sdoc \in scopeDocs : scope_capabilities = scope_reload_result(sdoc)
    /\ reg_product_scope \in attachments
    /\ \E doc \in regDocs :
         LET r == reload_result(FreshSnapshot, doc) IN
         /\ r.raised = "none"
         /\ reg_version = r.version
         /\ reg_updated_at = r.updated_at
         /\ reg_capabilities = r.capabilities
    /\ reload_raised = "none"
    /\ lookup = NoLookup

(***************************************************************************)
(* Text.  A text (a model reply, a user message) is a sequence of tokens.  *)
(* A token is one character that the code looks at on its own              *)
(*     {  }  [  ]  ,  :  "  \  space  newline                              *)
(* or a run of characters that holds none of them: the fence marker (three *)
(* backticks, written as three apostrophes here), a word, a number.  Every *)
(* function below treats a text as the code treats its string.             *)
(***************************************************************************)
Fence == "'''"
Quote == "\""
Backslash == "\\"
Space == " "
Newline == "\n"

IsSpace(t) == t \in {Space, Newline}

\* The string a token sequence stands for.
RECURSIVE Join(_)
Join(s) == IF s = <<>> THEN "" ELSE Head(s) \o Join(Tail(s))

RECURSIVE lstrip(_)
lstrip(s) == IF s # <<>> /\ IsSpace(Head(s)) THEN lstrip(Tail(s)) ELSE s

RECURSIVE rstrip(_)
rstrip(s) ==
    IF s # <<>> /\ IsSpace(s[Len(s)]) THEN rstrip(SubSeq(s, 1, Len(s) - 1)) ELSE s

\* str.strip()
strip(s) == rstrip(lstrip(s))

\* str.lower() of a token, over the letters A-Z.
UpperLetters == "ABCDEFGHIJKLMNOPQRSTUVWXYZ"
LowerLetters == "abcdefghijklmnopqrstuvwxyz"
LowerChar(c) ==
    IF \E i \in 1..26 : SubSeq(UpperLetters, i, i) = c
    THEN LET i == CHOOSE i \in 1..26 : SubSeq(UpperLetters, i, i) = c
         IN SubSeq(LowerLetters, i, i)
    ELSE c
RECURSIVE LowerStr(_)
LowerStr(tok) == IF tok = "" THEN "" ELSE LowerChar(Head(tok)) \o LowerStr(Tail(tok))

\* (?:json)? with re.IGNORECASE at the head of the tokens after the fence: the
\* four letters are taken off the token that begins with them, whatever the
\* token goes on with.
drop_json_tag(after) ==
    IF after # <<>> /\ Len(Head(after)) >= 4
          /\ LowerStr(SubSeq(Head(after), 1, 4)) = "json"
    THEN IF Len(Head(after)) = 4 THEN Tail(after)
         ELSE <<SubSeq(Head(after), 5, Len(Head(after)))>> \o Tail(after)
    ELSE after

\* _strip_fences
strip_fences(text) ==
    LET cleaned == strip(text)
        \* re.sub(r"^```(?:json)?\s*", "", cleaned, flags=re.IGNORECASE)
        opened ==
            IF cleaned # <<>> /\ Head(cleaned) = Fence
            THEN lstrip(drop_json_tag(Tail(cleaned)))
            ELSE cleaned
        \* re.sub(r"\s*```$", "", cleaned)
        closed ==
            IF opened # <<>> /\ opened[Len(opened)] = Fence
            THEN rstrip(SubSeq(opened, 1, Len(opened) - 1))
            ELSE opened
    IN strip(closed)

\* cleaned.find("{") as a position from 1, 0 when there is none.
find_brace(cleaned) ==
    IF \E i \in 1..Len(cleaned) : cleaned[i] = "{"
    THEN CHOOSE i \in 1..Len(cleaned) :
            cleaned[i] = "{" /\ \A j \in 1..(i - 1) : cleaned[j] # "{"
    ELSE 0

\* The scanning loop of _extract_first_json_object from position idx.
RECURSIVE scan_object(_, _, _, _, _, _)
scan_object(cleaned, start, idx, depth, in_string, escaped) ==
    IF idx > Len(cleaned) THEN <<>>
    ELSE LET char == cleaned[idx] IN
         IF escaped
         THEN scan_object(cleaned, start, idx + 1, depth, in_string, FALSE)
         ELSE IF char = Backslash
         THEN scan_object(cleaned, start, idx + 1, depth, in_string, TRUE)
         ELSE IF char = Quote
         THEN scan_object(cleaned, start, idx + 1, depth, ~in_string, FALSE)
         ELSE IF in_string
         THEN scan_object(cleaned, start, idx + 1, depth, in_string, FALSE)
         ELSE IF char = "{"
         THEN scan_object(cleaned, start, idx + 1, depth + 1, in_string, FALSE)
         ELSE IF char = "}"
         THEN IF depth - 1 = 0
              THEN SubSeq(cleaned, start, idx)
              ELSE scan_object(cleaned, start, idx + 1, depth - 1, in_string, FALSE)
         ELSE scan_object(cleaned, start, idx + 1, depth, in_string, FALSE)

\* A variant of _extract_first_json_object that takes everything from the first
\* "{" to the last "}" of the text, whatever lies between them.
extract_first_json_object_to_last_brace(text) ==
    LET cleaned == strip_fences(text)
        closes == {i \in 1..Len(cleaned) : cleaned[i] = "}"}
    IN IF cleaned = <<>> THEN <<>>
       ELSE IF Head(cleaned) = "{" /\ cleaned[Len(cleaned)] = "}" THEN cleaned
       ELSE LET start == find_brace(cleaned) IN
            IF start = 0 \/ \A i \in closes : i < start THEN <<>>
            ELSE SubSeq(cleaned, start, CHOOSE i \in closes : \A j \in closes : j <= i)

\* _extract_first_json_object
extract_first_json_object(text) ==
    LET cleaned == strip_fences(text) IN
    IF cleaned = <<>> THEN <<>>
    ELSE IF Head(cleaned) = "{" /\ cleaned[Len(cleaned)] = "}" THEN cleaned
    ELSE LET start == find_brace(cleaned) IN
         IF start = 0 THEN <<>>
         ELSE scan_object(cleaned, start, start, 0, FALSE, FALSE)

\* re.sub(r",\s*([}\]])", r"\1", candidate)
RECURSIVE sub_trailing_commas(_)
sub_trailing_commas(candidate) ==
    IF candidate = <<>> THEN <<>>
    ELSE IF Head(candidate) = ","
    THEN LET rest == lstrip(Tail(candidate)) IN
         IF rest # <<>> /\ Head(rest) \in {"}", "]"}
         THEN <<Head(rest)>> \o sub_trailing_commas(Tail(rest))
         ELSE <<",">> \o sub_trailing_commas(Tail(candidate))
    ELSE <<Head(candidate)>> \o sub_trailing_commas(Tail(candidate))

\* _local_json_repair
local_json_repair(raw) ==
    LET extracted == extract_first_json_object(raw)
        candidate == IF extracted = <<>> THEN strip_fences(raw) ELSE extracted
    IN strip(sub_trailing_commas(candidate))

(***************************************************************************)
(* json.loads on a text.  A JSON value is a record                         *)
(*   t      "str", "num", "bool", "null", "arr" or "obj"                   *)
(*   s      the tokens of a string, or the one token of a number or of     *)
(*          true / false                                                   *)
(*   items  the values of an array, or the members [k, v] of an object in  *)
(*          the order written (k is the key as a string)                   *)
(* Of the escapes of a JSON string only \" and \\ are in the alphabet.      *)
(* DeepNest is one token for a run of more [ than the interpreter allows   *)
(* nested calls (sys.getrecursionlimit(), 1000), closed by as many ]: the  *)
(* decoder gives up on it with RecursionError, which is no ValueError.     *)
(***************************************************************************)
DeepNest == "[[[...]]]"

NumberTokens == {"-0.2", "0", "0.03", "0.35", "0.44", "0.45", "0.46", "0.5", "0.6", "0.62",
                 "0.66", "0.69", "0.7", "0.70", "0.71", "0.75", "0.88", "0.9", "0.90",
                 "0.91", "1", "1.0", "1.5", "2"}

JStr(s) == [t |-> "str", s |-> s, items |-> <<>>]
JNum(tok) == [t |-> "num", s |-> <<tok>>, items |-> <<>>]
JBool(tok) == [t |-> "bool", s |-> <<tok>>, items |-> <<>>]
JNull == [t |-> "null", s |-> <<>>, items |-> <<>>]
JArr(items) == [t |-> "arr", s |-> <<>>, items |-> items]
JObj(members) == [t |-> "obj", s |-> <<>>, items |-> members]

\* What the decoder gives for a text: ok with the value read and the text that
\* follows it, or the exception it raises.
ParseOk(v, rest) == [ok |-> TRUE, v |-> v, rest |-> rest, raised |-> "none"]
ParseFail == [ok |-> FALSE, v |-> JNull, rest |-> <<>>, raised |-> "JSONDecodeError"]
ParseTooDeep == [ok |-> FALSE, v |-> JNull, rest |-> <<>>, raised |-> "RecursionError"]

\* The characters of a string literal after its opening quote.
RECURSIVE parse_string_body(_, _)
parse_string_body(s, acc) ==
    IF s = <<>> THEN ParseFail
    ELSE IF Head(s) = Quote THEN ParseOk(JStr(acc), Tail(s))
    ELSE IF Head(s) = Backslash
    THEN IF Len(s) >= 2 /\ s[2] \in {Quote, Backslash}
         THEN parse_string_body(SubSeq(s, 3, Len(s)), Append(acc, s[2]))
         ELSE ParseFail
    ELSE IF Head(s) = Newline THEN ParseFail
    ELSE parse_string_body(Tail(s), Append(acc, Head(s)))

RECURSIVE parse_value(_)
RECURSIVE parse_members(_, _)
RECURSIVE parse_elements(_, _)

parse_value(text) ==
    LET s == lstrip(text) IN
    IF s = <<>> THEN ParseFail
    ELSE IF Head(s) = Quote THEN parse_string_body(Tail(s), <<>>)
    ELSE IF Head(s) = "{"
    THEN LET r == lstrip(Tail(s)) IN
         IF r # <<>> /\ Head(r) = "}" THEN ParseOk(JObj(<<>>), Tail(r))
         ELSE parse_members(r, <<>>)
    ELSE IF Head(s) = "["
    THEN LET r == lstrip(Tail(s)) IN
         IF r # <<>> /\ Head(r) = "]" THEN ParseOk(JArr(<<>>), Tail(r))
         ELSE parse_elements(r, <<>>)
    ELSE IF Head(s) = DeepNest THEN ParseTooDeep
    ELSE IF Head(s) \in NumberTokens THEN ParseOk(JNum(Head(s)), Tail(s))
    ELSE IF Head(s) \in {"true", "false"} THEN ParseOk(JBool(Head(s)), Tail(s))
    ELSE IF Head(s) = "null" THEN ParseOk(JNull, Tail(s))
    ELSE ParseFail

\* The members of an object from the key at the head of s; acc holds the members read.
parse_members(s, acc) ==
    IF s = <<>> \/ Head(s) # Quote THEN ParseFail
    ELSE LET key == parse_string_body(Tail(s), <<>>) IN
         IF ~key.ok THEN key
         ELSE LET colon == lstrip(key.rest) IN
              IF colon = <<>> \/ Head(colon) # ":" THEN ParseFail
              ELSE LET val == parse_value(Tail(colon)) IN
                   IF ~val.ok THEN val
                   ELSE LET next == lstrip(val.rest)
                            members == Append(acc, [k |-> Join(key.v.s), v |-> val.v])
                        IN IF next = <<>> THEN ParseFail
                           ELSE IF Head(next) = "}" THEN ParseOk(JObj(members), Tail(next))
                           ELSE IF Head(next) = ","
                           THEN parse_members(lstrip(Tail(next)), members)
                           ELSE ParseFail

\* The values of an array from the value at the head of s.
parse_elements(s, acc) ==
    LET val == parse_value(s) IN
    IF ~val.ok THEN val
    ELSE LET next == lstrip(val.rest)
             items == Append(acc, val.v)
         IN IF next = <<>> THEN ParseFail
            ELSE IF Head(next) = "]" THEN ParseOk(JArr(items), Tail(next))
            ELSE IF Head(next) = "," THEN parse_elements(lstrip(Tail(next)), items)
            ELSE ParseFail

\* json.loads(candidate): ok is FALSE where it raises.
json_loads(candidate) ==
    LET r == parse_value(candidate) IN
    IF r.ok /\ lstrip(r.rest) # <<>> THEN ParseFail ELSE r

\* dict semantics of an object: has key, and the value of the last member with it.
has_key(members, key) == \E i \in 1..Len(members) : members[i].k = key

dict_get(members, key) ==
    LET last == CHOOSE i \in 1..Len(members) :
                    members[i].k = key /\ \A j \in (i + 1)..Len(members) : members[j].k # key
    IN members[last].v

\* The dict json.loads builds: one entry per key, placed where the key first
\* occurs, holding the value written last.
RECURSIVE dict_of_loop(_, _, _)
dict_of_loop(members, all, acc) ==
    IF members = <<>> THEN acc
    ELSE LET key == Head(members).k IN
         IF has_key(acc, key)
         THEN dict_of_loop(Tail(members), all, acc)
         ELSE dict_of_loop(Tail(members), all, Append(acc, [k |-> key, v |-> dict_get(all, key)]))

dict_of(members) == dict_of_loop(members, members, <<>>)

(***************************************************************************)
(* Python floats (IEEE 754 binary64).  The floats of the router are the    *)
(* doubles nearest to a number of hundredths, and differences of two of    *)
(* them.  A float is a record [c, e]: its exact value is                   *)
(*       c / 100  +  e * Ulp60,     Ulp60 = 2^-60 / 100,                   *)
(* the decimal it was written as plus the rounding error the double        *)
(* carries.  The roundings are to nearest, ties to even, on the 53-bit     *)
(* grid of the result's binade, computed with modular arithmetic so that   *)
(* no number exceeds 32 bits.  |c| <= 200 and |e| < 2^16.                  *)
(***************************************************************************)
Float(c, e) == [c |-> c, e |-> e]

Pow2(n) == 2 ^ n

\* 2^n mod m, by repeated doubling, and its values for the moduli and the
\* exponents the roundings use.
RECURSIVE Pow2ModLoop(_, _)
Pow2ModLoop(n, m) == IF n = 0 THEN 1 % m ELSE (2 * Pow2ModLoop(n - 1, m)) % m
Pow2ModTable == [m \in {100, 200} |-> [n \in 0..64 |-> Pow2ModLoop(n, m)]]
Pow2Mod(n, m) == Pow2ModTable[m][n]

\* The binade of c/100 for 1 <= c <= 200: the k with 2^k <= c/100 < 2^(k+1).
Binade(c) ==
    CHOOSE k \in (-7)..1 :
        /\ 100 * Pow2(k + 7) <= c * Pow2(7)
        /\ c * Pow2(7) < 100 * Pow2(k + 8)

\* A value lies q*g + extra units above a point of the grid of binade k, whose
\* spacing is 100*g units (g = 2^(k+8)) and whose index has parity par0.  The
\* result is the rounding of the value to the grid, less q*g.
RoundToGrid(q, par0, extra, g) ==
    LET G == 100 * g
        p == q * g + extra
        r == p % G
        base == p - r
        idx == par0 + (base \div G)
        rounded == IF 2 * r < G THEN base
                   ELSE IF 2 * r > G THEN base + G
                   ELSE IF idx % 2 = 0 THEN base ELSE base + G
    IN rounded - q * g

\* The rounding error, in units, of the double nearest to cd/100 + extra units
\* (cd >= 1), on the grid of binade k.
ErrorOn(cd, extra, k) ==
    LET q == (cd * Pow2Mod(52 - k, 100)) % 100
        par0 == (((cd * Pow2Mod(52 - k, 200)) % 200) - q) \div 100
    IN RoundToGrid(q, par0, extra, Pow2(k + 8))

\* float("0.cc"): the double nearest to c hundredths.
float_of(c) ==
    IF c = 0 THEN Float(0, 0)
    ELSE IF c < 0 THEN Float(c, 0 - ErrorOn(0 - c, 0, Binade(0 - c)))
    ELSE Float(c, ErrorOn(c, 0, Binade(c)))

\* x - y for floats with x.c > y.c >= 0.
float_sub(x, y) ==
    LET cd == x.c - y.c
        extra == x.e - y.e
        k == IF cd \in {25, 50, 100, 200} /\ extra < 0 THEN Binade(cd) - 1 ELSE Binade(cd)
    IN Float(cd, ErrorOn(cd, extra, k))

\* x < y, x >= y, x > y
float_lt(x, y) == x.c < y.c \/ (x.c = y.c /\ x.e < y.e)
float_ge(x, y) == ~float_lt(x, y)
float_gt(x, y) == float_lt(y, x)

\* max(x, y) of Python: y when y > x, else x.
float_max(x, y) == IF float_gt(y, x) THEN y ELSE x

(***************************************************************************)
(* RouteDecision and its validation (RouteDecision.model_validate).        *)
(* entities is a dict: a sequence of entries [k, v], v a JSON value.       *)
(***************************************************************************)
Decision(intent, entities, candidate_tools, confidence, needs_clarification, clarification_question) ==
    [intent |-> intent, entities |-> entities, candidate_tools |-> candidate_tools,
     confidence |-> confidence, needs_clarification |-> needs_clarification,
     clarification_question |-> clarification_question]

\* The value RouteDecision() has with no field given.
DefaultDecision == Decision("general_chat", <<>>, <<"chat_general">>, float_of(50), FALSE, "")

\* "no decision": the None that stands where a RouteDecision may stand.
NoneDecision == Decision("None", <<>>, <<>>, float_of(0), FALSE, "")

\* The number a number token denotes, in hundredths.
NumberValue(tok) ==
    CASE tok = "-0.2" -> 0 - 20
      [] tok = "0" -> 0
      [] tok = "0.03" -> 3
      [] tok = "0.35" -> 35
      [] tok = "0.44" -> 44
      [] tok = "0.45" -> 45
      [] tok = "0.46" -> 46
      [] tok = "0.5" -> 50
      [] tok = "0.6" -> 60
      [] tok = "0.62" -> 62
      [] tok = "0.66" -> 66
      [] tok = "0.69" -> 69
      [] tok \in {"0.7", "0.70"} -> 70
      [] tok = "0.71" -> 71
      [] tok = "0.75" -> 75
      [] tok = "0.88" -> 88
      [] tok \in {"0.9", "0.90"} -> 90
      [] tok = "0.91" -> 91
      [] tok \in {"1", "1.0"} -> 100
      [] tok = "1.5" -> 150
      [] tok = "2" -> 200

\* The spellings pydantic reads as a bool.
TrueWords == {"1", "on", "t", "true", "y", "yes"}
FalseWords == {"0", "off", "f", "false", "n", "no"}

\* A field of type str: a JSON string.
str_field_ok(v) == v.t = "str"

\* A field of type float with ge=0.0, le=1.0: a number, a bool or a numeric string
\* (blanks around the number are left aside) whose float lies in [0, 1].
float_field_value(v) ==
    IF v.t = "bool" THEN float_of(IF v.s[1] = "true" THEN 100 ELSE 0)
    ELSE IF v.t = "str" THEN float_of(NumberValue(strip(v.s)[1]))
    ELSE float_of(NumberValue(v.s[1]))

float_field_ok(v) ==
    /\ \/ v.t \in {"num", "bool"}
       \/ v.t = "str" /\ Len(strip(v.s)) = 1 /\ strip(v.s)[1] \in NumberTokens
    /\ float_ge(float_field_value(v), float_of(0))
    /\ ~float_gt(float_field_value(v), float_of(100))

\* A field of type bool: true or false, the numbers 0 and 1, or one of the
\* spellings above, in any case.
bool_field_ok(v) ==
    \/ v.t = "bool"
    \/ v.t = "num" /\ NumberValue(v.s[1]) \in {0, 100}
    \/ v.t = "str" /\ Len(v.s) = 1 /\ LowerStr(v.s[1]) \in TrueWords \cup FalseWords

bool_field_value(v) ==
    IF v.t = "bool" THEN v.s[1] = "true"
    ELSE IF v.t = "num" THEN NumberValue(v.s[1]) = 100
    ELSE LowerStr(v.s[1]) \in TrueWords

\* A field of type list[str]: an array of strings.
list_field_ok(v) == v.t = "arr" /\ \A i \in 1..Len(v.items) : v.items[i].t = "str"

\* A field of type dict[str, Any]: an object.
dict_field_ok(v) == v.t = "obj"

route_decision_ok(data) ==
    LET m == data.items IN
    /\ data.t = "obj"
    /\ has_key(m, "intent") => str_field_ok(dict_get(m, "intent"))
    /\ has_key(m, "entities") => dict_field_ok(dict_get(m, "entities"))
    /\ has_key(m, "candidate_tools") => list_field_ok(dict_get(m, "candidate_tools"))
    /\ has_key(m, "confidence") => float_field_ok(dict_get(m, "confidence"))
    /\ has_key(m, "needs_clarification") => bool_field_ok(dict_get(m, "needs_clarification"))
    /\ has_key(m, "clarification_question") =>
           str_field_ok(dict_get(m, "clarification_question"))

\* The RouteDecision model_validate builds from valid data: the fields given, the
\* defaults for the others; keys that are no field are ignored.
route_decision_of(data) ==
    LET m == data.items IN
    Decision(
        IF has_key(m, "intent") THEN Join(dict_get(m, "intent").s)
        ELSE DefaultDecision.intent,
        IF has_key(m, "entities") THEN dict_of(dict_get(m, "entities").items)
        ELSE DefaultDecision.entities,
        IF has_key(m, "candidate_tools")
        THEN LET tools == dict_get(m, "candidate_tools").items IN
             [i \in 1..Len(tools) |-> Join(tools[i].s)]
        ELSE DefaultDecision.candidate_tools,
        IF has_key(m, "confidence") THEN float_field_value(dict_get(m, "confidence"))
        ELSE DefaultDecision.confidence,
        IF has_key(m, "needs_clarification")
        THEN bool_field_value(dict_get(m, "needs_clarification"))
        ELSE DefaultDecision.needs_clarification,
        IF has_key(m, "clarification_question")
        THEN Join(dict_get(m, "clarification_question").s)
        ELSE DefaultDecision.clarification_question)

(***************************************************************************)
(* validate_json_output(raw, RouteDecision): the error raised ("" if none) *)
(* and the decision returned.  An error is the text str(exc) that          *)
(* generate_validated_json stores in trace.last_error.                     *)
(***************************************************************************)
NoJsonError == "No se encontro objeto JSON en la salida."
SchemaValidationError == "ValidationError"

Validated(error, parsed) == [error |-> error, parsed |-> parsed]

\* schema_model.model_validate(data), data being what json.loads gave or raised.
validate_data(data) ==
    IF ~data.ok THEN Validated(data.raised, NoneDecision)
    ELSE IF ~route_decision_ok(data.v) THEN Validated(SchemaValidationError, NoneDecision)
    ELSE Validated("", route_decision_of(data.v))

\* validate_json_output from the candidate it has extracted.
validate_candidate(candidate) ==
    IF candidate = <<>> THEN Validated(NoJsonError, NoneDecision)
    ELSE validate_data(json_loads(candidate))

validate_json_output(raw) == validate_candidate(extract_first_json_object(raw))

(***************************************************************************)
(* User messages.  A message is the sequence of its words, in lower case   *)
(* (every pattern is matched ignoring case), separated by single spaces    *)
(* and without punctuation.  A pattern \b(w1|w2)\b matches when one of the  *)
(* words is w1 or w2; x\s+y matches two words in a row; x.{0,n}y matches x *)
(* and a later y with at most n characters between them.                   *)
(***************************************************************************)
\* The text of words: the words with one space between neighbours.
RECURSIVE Unwords(_)
Unwords(words) ==
    IF words = <<>> THEN <<>>
    ELSE IF Len(words) = 1 THEN words
    ELSE <<Head(words), Space>> \o Unwords(Tail(words))

HasWord(words, S) == \E i \in 1..Len(words) : words[i] \in S

\* words[i], words[i+1], ... are the words of phrase.
PhraseAt(words, i, phrase) ==
    /\ i + Len(phrase) - 1 <= Len(words)
    /\ \A j \in 1..Len(phrase) : words[i + j - 1] = phrase[j]

HasPhrase(words, phrases) ==
    \E i \in 1..Len(words) : \E phrase \in phrases : PhraseAt(words, i, phrase)

\* The number of characters between the end of word i and the start of word j > i.
RECURSIVE CharsBetween(_, _, _)
CharsBetween(words, i, j) ==
    IF j = i + 1 THEN 1 ELSE Len(words[j - 1]) + 1 + CharsBetween(words, i, j - 1)

\* REMINDER_HINT_RE
ReminderWords == {"recordatorio", "recordatorios", "recuerdame", "avisame", "avísame",
                  "pendientes"}
REMINDER_HINT(words) == HasWord(words, ReminderWords)

\* MEMORY_PURGE_HINT_RE
PurgePhrases == {<<"protocolo", "de", "borrado">>, <<"borrado", "de", "memoria">>,
                 <<"resetea", "memoria">>, <<"resetear", "memoria">>,
                 <<"reinicia", "memoria">>, <<"reiniciar", "memoria">>}
MEMORY_PURGE_HINT(words) ==
    \/ HasPhrase(words, PurgePhrases)
    \/ \E i, j, k \in 1..Len(words) :
          /\ i < j /\ j < k
          /\ words[i] \in {"borra", "elimina", "limpia", "olvida"}
          /\ words[j] \in {"toda", "todo"}
          /\ words[k] \in {"memoria", "conversacione", "conversaciones"}
          /\ CharsBetween(words, i, j) <= 35
          /\ CharsBetween(words, j, k) <= 35

\* The object of MEMORY_UPDATE_HINT_RE and MEMORY_DELETE_HINT_RE at word j.
MemoryObjectAt(words, j) ==
    \/ words[j] \in {"memoria", "recuerdo", "dato", "perfil"}
    \/ PhraseAt(words, j, <<"lo", "que", "recuerdas">>)

VerbThenMemoryObject(words, verbs) ==
    \E i, j \in 1..Len(words) :
        /\ i < j
        /\ words[i] \in verbs
        /\ MemoryObjectAt(words, j)
        /\ CharsBetween(words, i, j) <= 45

\* MEMORY_UPDATE_HINT_RE
MEMORY_UPDATE_HINT(words) ==
    VerbThenMemoryObject(words, {"actualiza", "corrige", "edita", "modifica", "cambia"})

\* MEMORY_DELETE_HINT_RE
MEMORY_DELETE_HINT(words) ==
    VerbThenMemoryObject(words, {"olvida", "borra", "elimina", "quita", "remueve"})

\* MEMORY_RECALL_HINT_RE
RecallPhrases == {<<"que", "recuerdas">>, <<"que", "sabes", "de", "mi">>, <<"mi", "perfil">>,
                  <<"lo", "que", "tienes", "guardado">>, <<"recuerdo", "sobre">>,
                  <<"recuerdos", "sobre">>}
MEMORY_RECALL_HINT(words) == HasPhrase(words, RecallPhrases)

\* MEMORY_STORE_HINT_RE
StorePhrases == {<<"recuerda", "que">>, <<"acuerdate", "de">>, <<"acuérdate", "de">>,
                 <<"guarda", "en", "memoria">>, <<"guardar", "en", "memoria">>,
                 <<"guarda", "en", "tu", "memoria">>, <<"guardar", "en", "tu", "memoria">>,
                 <<"ten", "presente", "que">>, <<"anota", "en", "tu", "memoria">>,
                 <<"anotar", "en", "tu", "memoria">>}
MEMORY_STORE_HINT(words) == HasPhrase(words, StorePhrases)

\* WEB_HINT_RE
WebWords == {"busca", "buscar", "investiga", "consulta", "averigua", "google", "internet",
             "web", "noticia", "noticias", "precio", "cotizacion", "cotización", "valor",
             "actual"}
WEB_HINT(words) == HasWord(words, WebWords)

\* NEWS_HINT_RE
NewsWords == {"noticia", "noticias", "news", "titulares", "actualidad"}
NEWS_HINT(words) == HasWord(words, NewsWords)

\* TEMPORAL_REFERENCE_RE; of the clock times \d{1,2}:\d{2} and \d{1,2}\s*(am|pm) the
\* words below are the ones of the vocabulary.
TemporalWords == {"hoy", "manana", "mañana", "ayer", "actual", "actualmente", "ahora",
                  "lunes", "martes", "miercoles", "miércoles", "jueves", "viernes",
                  "sabado", "sábado", "domingo", "9:30", "9am", "10pm"}
TemporalPhrases == {<<"pasado", "manana">>, <<"pasado", "mañana">>, <<"esta", "semana">>,
                    <<"este", "mes">>, <<"este", "ano">>, <<"este", "año">>,
                    <<"9", "am">>, <<"10", "pm">>}
has_temporal_reference(words) ==
    HasWord(words, TemporalWords) \/ HasPhrase(words, TemporalPhrases)

(***************************************************************************)
(* extract_search_intent.  Its six patterns are searched in turn in the    *)
(* text of the words; the first whose group(1) is a valid query gives the  *)
(* result, the query as a sequence of words, <<>> standing for None.  The  *)
(* patterns do not begin with \b, so the word they begin in need only end  *)
(* with their first word; x\s*y matches the two words in a row as well as  *)
(* the one word xy.  re.search takes the leftmost match.                   *)
(***************************************************************************)
SearchVerbs == {"buscar", "busca", "buscame", "búscame", "investiga", "consulta", "averigua"}
invalid_queries == {<<"actual">>, <<"hoy">>, <<"ahora">>, <<"de">>, <<"del">>}

Drop(s, n) == SubSeq(s, n + 1, Len(s))

EndsWith(w, suffix) ==
    Len(w) >= Len(suffix) /\ SubSeq(w, Len(w) - Len(suffix) + 1, Len(w)) = suffix

\* The words of lead end at the end of a word that other words follow: the
\* first ends words[i], the others are the next words.
LeadAt(words, i, lead) ==
    /\ i + Len(lead) - 1 < Len(words)
    /\ EndsWith(words[i], lead[1])
    /\ \A j \in 2..Len(lead) : words[i + j - 1] = lead[j]

LeadMatches(words, leads) ==
    {c \in [i : 1..Len(words), lead : leads] : LeadAt(words, c.i, c.lead)}

\* The words after the leftmost lead: the one that begins in the earliest
\* word, and earliest within it.
RestAfterLead(words, leads) ==
    LET found == LeadMatches(words, leads)
        first == CHOOSE c \in found :
                     \A d \in found :
                         \/ c.i < d.i
                         \/ c.i = d.i /\ Len(c.lead[1]) >= Len(d.lead[1])
    IN IF found = {} THEN <<>> ELSE Drop(words, first.i + Len(first.lead) - 1)

\* The length of (?:\s+en\s+(?:la\s+)?(?:web|internet|google))? at the head of rest.
WebPrefixLen(rest) ==
    IF PhraseAt(rest, 1, <<"en", "la">>) /\ Len(rest) >= 3
          /\ rest[3] \in {"web", "internet", "google"} THEN 3
    ELSE IF Len(rest) >= 2 /\ rest[1] = "en" /\ rest[2] \in {"web", "internet", "google"}
    THEN 2
    ELSE 0

\* group(1) of the first pattern for the words after the verb: the optional
\* parts are taken when words remain after them, the later one given up first.
SearchQueryAfterVerb(rest) ==
    LET web == WebPrefixLen(rest)
        afterWeb == Drop(rest, web)
        sobre == IF afterWeb # <<>> /\ Head(afterWeb) = "sobre" THEN 1 ELSE 0
    IN IF Len(rest) > web + sobre THEN Drop(rest, web + sobre)
       ELSE IF Len(rest) > web THEN Drop(rest, web)
       ELSE IF rest # <<>> /\ Head(rest) = "sobre" /\ Len(rest) > 1 THEN Tail(rest)
       ELSE rest

\* The match of the first pattern: the query after the leftmost verb that words
\* follow, <<>> when it does not match.
SearchPattern1(words) ==
    SearchQueryAfterVerb(RestAfterLead(words, {<<verb>> : verb \in SearchVerbs}))

\* The match of the second pattern: que noticias X, noticias sobre X,
\* noticias de X, ultimas noticias X.
NewsLeads == {<<"que", "noticias">>, <<"noticias", "sobre">>, <<"noticias", "de">>,
              <<"ultimas", "noticias">>, <<"quenoticias">>, <<"noticiassobre">>,
              <<"noticiasde">>, <<"ultimasnoticias">>}
SearchPattern2(words) == RestAfterLead(words, NewsLeads)

\* The match of the third pattern: que es|son|significa X, quien es X,
\* donde queda|esta X.
WhatLeads == {<<"que", "es">>, <<"que", "son">>, <<"que", "significa">>, <<"quien", "es">>,
              <<"donde", "queda">>, <<"donde", "esta">>, <<"quees">>, <<"queson">>,
              <<"quesignifica">>, <<"quienes">>, <<"dondequeda">>, <<"dondeesta">>}
SearchPattern3(words) == RestAfterLead(words, WhatLeads)

\* The match of the fourth pattern: cuanto cuesta|vale X.
CostLeads == {<<"cuanto", "cuesta">>, <<"cuanto", "vale">>, <<"cuantocuesta">>,
              <<"cuantovale">>}
SearchPattern4(words) == RestAfterLead(words, CostLeads)

\* precio|cotizaci[oó]n|cotizacion|valor
PriceWords == {"precio", "cotizacion", "cotización", "valor"}

\* group(1) of the fifth pattern for the words after the price word:
\* (?:\s+actual)?(?:\s+(?:de|del))?\s+(.+), the later optional part given up
\* first when no word would be left.
SearchQueryAfterPrice(rest) ==
    LET actual == IF rest # <<>> /\ Head(rest) = "actual" THEN 1 ELSE 0
        afterActual == Drop(rest, actual)
        de == IF afterActual # <<>> /\ Head(afterActual) \in {"de", "del"} THEN 1 ELSE 0
    IN IF Len(rest) > actual + de THEN Drop(rest, actual + de)
       ELSE IF Len(rest) > actual THEN Drop(rest, actual)
       ELSE rest

\* The match of the fifth pattern: precio [actual] [de|del] X.
SearchPattern5(words) ==
    SearchQueryAfterPrice(RestAfterLead(words, {<<price>> : price \in PriceWords}))

\* The match of the sixth pattern, (.+?)\s+(?:precio|...)(?:\s+actual)?\b: the
\* words before the first price word that is not the first word.
SearchPattern6(words) ==
    IF \E k \in 2..Len(words) : words[k] \in PriceWords
    THEN LET k == CHOOSE k \in 2..Len(words) :
                     /\ words[k] \in PriceWords
                     /\ \A j \in 2..(k - 1) : words[j] \notin PriceWords
         IN SubSeq(words, 1, k - 1)
    ELSE <<>>

SearchPatterns(words) ==
    <<SearchPattern1(words), SearchPattern2(words), SearchPattern3(words),
      SearchPattern4(words), SearchPattern5(words), SearchPattern6(words)>>

extract_search_intent(words) ==
    LET queries == SearchPatterns(words)
        valid == {n \in 1..6 : queries[n] # <<>> /\ queries[n] \notin invalid_queries}
    IN IF valid = {} THEN <<>>
       ELSE queries[CHOOSE n \in valid : \A m \in valid : n <= m]

\* SemanticRouter._normalize_query
normalize_query(words) ==
    LET polite == IF PhraseAt(words, 1, <<"me", "puedes">>) /\ Len(words) > 2 THEN 2
                  ELSE IF PhraseAt(words, 1, <<"me", "podrias">>) /\ Len(words) > 2 THEN 2
                  ELSE IF PhraseAt(words, 1, <<"me", "podrías">>) /\ Len(words) > 2 THEN 2
                  ELSE IF Len(words) > 1 /\ words[1] \in {"puedes", "podrias", "podrías"}
                  THEN 1
                  ELSE 0
        cleaned == Drop(words, polite)
    IN IF Len(cleaned) > 1
          /\ cleaned[1] \in {"buscar", "busca", "investiga", "consulta", "averigua", "googlea"}
       THEN Tail(cleaned) ELSE cleaned

(***************************************************************************)
(* The inputs of the calls: model replies, user messages, histories.       *)
(***************************************************************************)
\* Writing JSON as tokens.
Str(w) == <<Quote, w, Quote>>
Member(k, v) == Str(k) \o <<":">> \o v

RECURSIVE Commas(_)
Commas(parts) ==
    IF parts = <<>> THEN <<>>
    ELSE IF Len(parts) = 1 THEN Head(parts)
    ELSE Head(parts) \o <<",">> \o Commas(Tail(parts))

Object(parts) == <<"{">> \o Commas(parts) \o <<"}">>
Array(parts) == <<"[">> \o Commas(parts) \o <<"]">>

\* No JSON object at all (the reply of the tests' FakeLLM).
ReplyProse == <<"invalid", Space, "json">>

\* {intent:web_search} -- braces, but not JSON.
ReplyNotJson == <<"{", "intent", ":", "web_search", "}">>

\* {"intent":"web_search","confidence":1.5} -- JSON that the schema rejects.
ReplyBadConfidence ==
    Object(<<Member("intent", Str("web_search")), Member("confidence", <<"1.5">>)>>)

\* The reply of test_router_accepts_valid_json_output.
ReplyTime ==
    Object(<<Member("intent", Str("time_sensitive_answer")),
             Member("entities", Object(<<Member("temporal_reference", <<"true">>)>>)),
             Member("candidate_tools", Array(<<Str("get_current_datetime"), Str("chat_general")>>)),
             Member("confidence", <<"0.91">>),
             Member("needs_clarification", <<"false">>),
             Member("clarification_question", <<Quote, Quote>>)>>)

\* The reply of test_router_reminder_management_includes_postpone_and_update_tools.
ReplyReminder ==
    Object(<<Member("intent", Str("reminder_management")),
             Member("entities", Object(<<>>)),
             Member("candidate_tools", Array(<<Str("reminder_create")>>)),
             Member("confidence", <<"0.90">>),
             Member("needs_clarification", <<"false">>),
             Member("clarification_question", <<Quote, Quote>>)>>)

\* A web search whose tools are in no registry, with an empty query.
ReplyUnknownTools ==
    Object(<<Member("intent", Str("web_search")),
             Member("entities", Object(<<Member("query", <<Quote, Space, Quote>>)>>)),
             Member("candidate_tools", Array(<<Str("tool_y"), Str("tool_x"), Str("tool_y")>>)),
             Member("confidence", <<"0.75">>)>>)

\* ```json\n{"intent":"memory_wipe","confidence":0.7,}\n``` -- fenced, with a
\* trailing comma, an intent synonym and the default tools.
ReplyFenced ==
    <<Fence, "json", Newline>>
    \o <<"{">> \o Member("intent", Str("memory_wipe")) \o <<",">>
    \o Member("confidence", <<"0.7">>) \o <<",", "}">>
    \o <<Newline, Fence>>

\* {"confidence":0.45,"candidate_tools":[]} -- every other field left to its default.
ReplyMinimal ==
    Object(<<Member("confidence", <<"0.45">>), Member("candidate_tools", Array(<<>>))>>)

\* Claro: {...} listo -- an object inside prose, asking for clarification.
ReplyClarify ==
    <<"Claro", ":", Space>>
    \o Object(<<Member("intent", Str("memory_store")),
                Member("candidate_tools",
                       Array(<<Str("chat_general"), Str("chat_general"), Str("get_current_datetime")>>)),
                Member("confidence", <<"0.6">>),
                Member("needs_clarification", <<"true">>)>>)
    \o <<Space, "listo">>

\* {"entities":{"deep":[[[...]]]}} -- nested deeper than the decoder can follow.
ReplyTooDeep == Object(<<Member("entities", Object(<<Member("deep", <<DeepNest>>)>>))>>)

\* {"intent":"small_talk","confidence":0.9} -- an intent of the model's own making.
ReplyOther ==
    Object(<<Member("intent", Str("small_talk")), Member("confidence", <<"0.9">>)>>)

\* {"intent":"web_search","confidence":0.88} listo :} -- an object followed by
\* prose that ends with a brace.
ReplyBraceProse ==
    Object(<<Member("intent", Str("web_search")), Member("confidence", <<"0.88">>)>>)
    \o <<Space, "listo", Space, ":", "}">>

\* {"intent":"web_search","confidence":0.44} -- above the floor of the fusion
\* rule, below every heuristic confidence less 0.10.
ReplyLow ==
    Object(<<Member("intent", Str("web_search")), Member("confidence", <<"0.44">>)>>)

Replies == {ReplyProse, ReplyNotJson, ReplyBadConfidence, ReplyTooDeep, ReplyTime,
            ReplyReminder, ReplyUnknownTools, ReplyFenced, ReplyMinimal, ReplyClarify,
            ReplyOther, ReplyBraceProse, ReplyLow}

MsgHello == <<"hola", "shaggy">>
\* test_router_reminder_management_includes_postpone_and_update_tools
MsgReminder == <<"mueve", "mi", "recordatorio", "de", "pagar", "luz", "para", "mañana">>
\* test_router_classifies_web_and_injects_datetime_tool
MsgWeather == <<"busca", "el", "clima", "hoy", "en", "pamplona">>
\* test_router_accepts_valid_json_output
MsgDate == <<"que", "fecha", "es", "hoy">>
\* test_router_fallback_detects_memory_delete
MsgForget == <<"olvida", "de", "tu", "memoria", "que", "me", "gusta", "el", "cafe">>
MsgPurge == <<"borra", "toda", "tu", "memoria">>
\* A web search that NEWS_HINT_RE matches, with a temporal reference.
MsgNews == <<"busca", "noticias", "de", "hoy">>
\* test_router_prefers_memory_delete_over_reminder_when_memory_is_explicit
MsgDeleteMention == <<"elimina", "de", "la", "memoria", "a", "largo", "plazo", "el", "tener",
                      "que", "mejorar", "los", "recordatorios">>
\* test_router_treats_non_action_reminder_mentions_as_general_chat
MsgMention == <<"hoy", "estuve", "pensando", "en", "mejorar", "los", "recordatorios", "del",
                "asistente">>

Messages == {MsgHello, MsgReminder, MsgWeather, MsgDate, MsgForget, MsgPurge, MsgNews,
             MsgDeleteMention, MsgMention}

\* A history is a list of items [role, content].
Turn(role, content) == [role |-> role, content |-> content]
HistoryNone == <<>>
HistoryLong == <<Turn("user", "Necesito plan para hoy"), Turn("assistant", "Claro"),
                 Turn("user", "Gracias"), Turn("assistant", "De nada"),
                 Turn("user", "Otra cosa")>>
Histories == {HistoryNone, HistoryLong}

(***************************************************************************)
(* SemanticRouter: the heuristic pass, fusion and sanitization.            *)
(***************************************************************************)
Entry(k, v) == [k |-> k, v |-> v]

\* A Python bool, and a Python str given by its words, as entity values.
PyBool(b) == IF b THEN JBool("true") ELSE JBool("false")
PyStr(words) == JStr(Unwords(words))

\* bool(value) for an entity value.
truthy(v) ==
    CASE v.t = "bool" -> v.s[1] = "true"
      [] v.t = "num" -> NumberValue(v.s[1]) # 0
      [] v.t = "str" -> v.s # <<>>
      [] v.t = "null" -> FALSE
      [] OTHER -> v.items # <<>>

\* entities[key] = value
dict_set(entries, key, value) ==
    IF has_key(entries, key)
    THEN [i \in 1..Len(entries) |->
             IF entries[i].k = key THEN Entry(key, value) ELSE entries[i]]
    ELSE Append(entries, Entry(key, value))

\* The decisions of _heuristic_route share this shape.
Heuristic(intent, temporal, candidate_tools, confidence) ==
    Decision(intent, <<Entry("temporal_reference", PyBool(temporal))>>, candidate_tools,
             float_of(confidence), FALSE, "")

\* A wrong variant of the heuristic pass, which tests the delete detector before
\* the purge and update detectors.
heuristic_route_delete_before_purge(message) ==
    LET temporal == has_temporal_reference(message)
        extracted_query == extract_search_intent(message)
        explicit_web == WEB_HINT(message)
    IN
    IF REMINDER_HINT(message)
    THEN Heuristic("reminder_management", temporal,
                   <<"reminder_create", "reminder_list", "reminder_delete">>, 80)
    ELSE IF MEMORY_DELETE_HINT(message)
    THEN Heuristic("memory_delete", temporal,
                   <<"memory_delete_user_fact", "memory_recall_profile">>, 72)
    ELSE IF MEMORY_PURGE_HINT(message)
    THEN Heuristic("memory_purge", temporal, <<"memory_purge_all", "chat_general">>, 76)
    ELSE IF MEMORY_UPDATE_HINT(message)
    THEN Heuristic("memory_update", temporal,
                   <<"memory_update_user_fact", "memory_recall_profile">>, 72)
    ELSE IF MEMORY_RECALL_HINT(message)
    THEN Heuristic("memory_recall", temporal,
                   <<"memory_recall_profile", "memory_retrieval">>, 73)
    ELSE IF MEMORY_STORE_HINT(message)
    THEN Heuristic("memory_store", temporal,
                   <<"memory_store_user_fact", "memory_store_summary">>, 73)
    ELSE IF extracted_query # <<>> \/ explicit_web
    THEN LET query == IF extracted_query # <<>> THEN extracted_query
                      ELSE normalize_query(message)
             primary == IF NEWS_HINT(message) THEN "web_search_news"
                        ELSE "web_search_general"
         IN Decision("web_search",
                     <<Entry("query", PyStr(query)),
                       Entry("temporal_reference", PyBool(temporal)),
                       Entry("prefer_news", PyBool(primary = "web_search_news"))>>,
                     <<primary, "web_search_general", "chat_general">>,
                     float_of(78), FALSE, "")
    ELSE IF temporal
    THEN Heuristic("time_sensitive_answer", TRUE,
                   <<"get_current_datetime", "chat_general">>, 70)
    ELSE Heuristic("general_chat", FALSE, <<"chat_general">>, 55)


heuristic_route(message) ==
    LET temporal == has_temporal_reference(message)
        extracted_query == extract_search_intent(message)
        explicit_web == WEB_HINT(message)
    IN
    IF REMINDER_HINT(message)
    THEN Heuristic("reminder_management", temporal,
                   <<"reminder_create", "reminder_list", "reminder_delete">>, 80)
    ELSE IF MEMORY_PURGE_HINT(message)
    THEN Heuristic("memory_purge", temporal, <<"memory_purge_all", "chat_general">>, 76)
    ELSE IF MEMORY_UPDATE_HINT(message)
    THEN Heuristic("memory_update", temporal,
                   <<"memory_update_user_fact", "memory_recall_profile">>, 72)
    ELSE IF MEMORY_DELETE_HINT(message)
    THEN Heuristic("memory_delete", temporal,
                   <<"memory_delete_user_fact", "memory_recall_profile">>, 72)
    ELSE IF MEMORY_RECALL_HINT(message)
    THEN Heuristic("memory_recall", temporal,
                   <<"memory_recall_profile", "memory_retrieval">>, 73)
    ELSE IF MEMORY_STORE_HINT(message)
    THEN Heuristic("memory_store", temporal,
                   <<"memory_store_user_fact", "memory_store_summary">>, 73)
    ELSE IF extracted_query # <<>> \/ explicit_web
    THEN LET query == IF extracted_query # <<>> THEN extracted_query
                      ELSE normalize_query(message)
             primary == IF NEWS_HINT(message) THEN "web_search_news"
                        ELSE "web_search_general"
         IN Decision("web_search",
                     <<Entry("query", PyStr(query)),
                       Entry("temporal_reference", PyBool(temporal)),
                       Entry("prefer_news", PyBool(primary = "web_search_news"))>>,
                     <<primary, "web_search_general", "chat_general">>,
                     float_of(78), FALSE, "")
    ELSE IF temporal
    THEN Heuristic("time_sensitive_answer", TRUE,
                   <<"get_current_datetime", "chat_general">>, 70)
    ELSE Heuristic("general_chat", FALSE, <<"chat_general">>, 55)

\* A variant of the fusion rule with the floor alone as its threshold.
semantic_wins_at_floor(heuristic_decision, semantic) ==
    /\ semantic # NoneDecision
    /\ float_ge(semantic.confidence, float_of(35))

\* The test of route() that lets the semantic decision replace the heuristic one.
semantic_wins(heuristic_decision, semantic) ==
    /\ semantic # NoneDecision
    /\ float_ge(semantic.confidence,
                float_max(float_of(35),
                          float_sub(heuristic_decision.confidence, float_of(10))))

\* intent_alias.get(intent, intent)
intent_alias(intent) ==
    CASE intent = "memory_edit" -> "memory_update"
      [] intent = "memory_forget" -> "memory_delete"
      [] intent \in {"memory_wipe", "memory_reset"} -> "memory_purge"
      [] OTHER -> intent

\* What filtered becomes when no proposed tool is in the registry's list.
registry_fallback(allowed_tools) ==
    IF "chat_general" \in allowed_tools THEN <<"chat_general">> ELSE <<>>

\* A wrong variant of the last fallback, which asks the registry instead of the
\* scope: with it a scope that allows chat_general can be left with no tool.
scope_fallback_by_registry ==
    IF "chat_general" \in Range(all_ids) THEN <<"chat_general">> ELSE <<>>

\* What candidate_tools becomes when filter_allowed returns nothing.
scope_fallback == IF is_allowed("chat_general") THEN <<"chat_general">> ELSE <<>>

\* A wrong variant of the insertion, which appends the tool.
insert_missing_at_end(filtered, allowed_tools, tool) ==
    IF tool \in allowed_tools /\ tool \notin Range(filtered)
    THEN Append(filtered, tool) ELSE filtered

\* if tool in allowed_tools and tool not in filtered: filtered.insert(0, tool)
insert_missing(filtered, allowed_tools, tool) ==
    IF tool \in allowed_tools /\ tool \notin Range(filtered)
    THEN <<tool>> \o filtered ELSE filtered

\* temporal in _sanitize_decision
sanitize_temporal(message, decision) ==
    \/ /\ has_key(decision.entities, "temporal_reference")
       /\ truthy(dict_get(decision.entities, "temporal_reference"))
    \/ has_temporal_reference(message)

\* The list filtered that _sanitize_decision hands to filter_allowed.
sanitize_filtered(message, decision) ==
    LET intent == intent_alias(decision.intent)
        allowed_tools == Range(all_ids)
        kept == FilterIn(decision.candidate_tools, allowed_tools)
        filtered == IF kept = <<>> THEN registry_fallback(allowed_tools) ELSE kept
        dated == IF sanitize_temporal(message, decision)
                 THEN insert_missing(filtered, allowed_tools, "get_current_datetime")
                 ELSE filtered
    IN CASE intent = "web_search" ->
              IF /\ "web_search_general" \in allowed_tools
                 /\ ~\E i \in 1..Len(dated) :
                        dated[i] \in {"web_search_general", "web_search_news"}
              THEN <<"web_search_general">> \o dated ELSE dated
         [] intent = "memory_store" ->
              insert_missing(dated, allowed_tools, "memory_store_user_fact")
         [] intent = "memory_recall" ->
              insert_missing(dated, allowed_tools, "memory_recall_profile")
         [] intent = "memory_update" ->
              insert_missing(dated, allowed_tools, "memory_update_user_fact")
         [] intent = "memory_delete" ->
              insert_missing(dated, allowed_tools, "memory_delete_user_fact")
         [] intent = "memory_purge" ->
              insert_missing(dated, allowed_tools, "memory_purge_all")
         [] OTHER -> dated

\* The entities after _sanitize_decision: a web search with no query gets one.
sanitize_entities(message, decision) ==
    LET entities == decision.entities
        \* str(entities.get("query", "")).strip() is empty
        no_query == \/ ~has_key(entities, "query")
                    \/ LET v == dict_get(entities, "query") IN
                       v.t = "str" /\ strip(v.s) = <<>>
        extracted == extract_search_intent(message)
    IN IF intent_alias(decision.intent) = "web_search" /\ no_query
       THEN dict_set(entities, "query",
                     PyStr(IF extracted # <<>> THEN extracted ELSE normalize_query(message)))
       ELSE entities

DefaultQuestion == "Podrias darme un poco mas de contexto para ayudarte mejor?"

\* A wrong variant of _sanitize_decision, which leaves the question as it is.
sanitize_decision_without_question(message, decision) ==
    LET scoped == filter_allowed(sanitize_filtered(message, decision)) IN
    Decision(intent_alias(decision.intent),
             sanitize_entities(message, decision),
             IF scoped = <<>> THEN scope_fallback ELSE scoped,
             IF float_lt(decision.confidence, float_of(5)) THEN float_of(5)
             ELSE IF float_gt(decision.confidence, float_of(100)) THEN float_of(100)
             ELSE decision.confidence,
             decision.needs_clarification,
             decision.clarification_question)

sanitize_decision(message, decision) ==
    LET scoped == filter_allowed(sanitize_filtered(message, decision)) IN
    Decision(intent_alias(decision.intent),
             sanitize_entities(message, decision),
             IF scoped = <<>> THEN scope_fallback ELSE scoped,
             IF float_lt(decision.confidence, float_of(5)) THEN float_of(5)
             ELSE IF float_gt(decision.confidence, float_of(100)) THEN float_of(100)
             ELSE decision.confidence,
             decision.needs_clarification,
             IF decision.needs_clarification /\ decision.clarification_question = ""
             THEN DefaultQuestion ELSE decision.clarification_question)

\* decision in route() before it is sanitized.
fused(heuristic_decision, semantic) ==
    IF semantic_wins(heuristic_decision, semantic) THEN semantic ELSE heuristic_decision

\* route() from the point where the semantic pass has returned semantic.
route_decision(message, heuristic_decision, semantic) ==
    sanitize_decision(message, fused(heuristic_decision, semantic))

(***************************************************************************)
(* generate_validated_json and route() as processes.  A call is atomic up  *)
(* to its next await of llm_engine.generate_response; the reply of the     *)
(* model is an input of the step that resumes the call.                    *)
(***************************************************************************)
\* Bound of the calls made to generate_validated_json directly: max_retries
\* ranges over -1..MaxGuardRetries (route() always passes 2).
MaxGuardRetries == 2

Max(a, b) == IF a >= b THEN a ELSE b

\* The exceptions that the except clause of generate_validated_json handles.
CaughtErrors == {NoJsonError, "JSONDecodeError", SchemaValidationError}
caught(error) == error \in CaughtErrors

\* The loop over (raw, _local_json_repair(raw)): the value returned, if any, the
\* exception that escapes, if any, and trace.last_error afterwards.
Tried(found, parsed, raised, error) ==
    [found |-> found, parsed |-> parsed, raised |-> raised, last_error |-> error]

\* A wrong variant of the second iteration, which never returns the repaired
\* candidate: a reply that only its repair makes valid is then retried.
try_repaired_never_returned(second, error_before) ==
    IF second.error # "" /\ ~caught(second.error)
    THEN Tried(FALSE, NoneDecision, second.error, error_before)
    ELSE Tried(FALSE, NoneDecision, "none",
               IF second.error = "" THEN error_before ELSE second.error)

\* The second iteration: second is what validate_json_output gave for the
\* repaired candidate, error_before is trace.last_error.
try_repaired(second, error_before) ==
    IF second.error = "" THEN Tried(TRUE, second.parsed, "none", error_before)
    ELSE IF ~caught(second.error) THEN Tried(FALSE, NoneDecision, second.error, error_before)
    ELSE Tried(FALSE, NoneDecision, "none", second.error)

\* The first iteration: first is what validate_json_output gave for raw.
try_raw(raw, first, error_before) ==
    IF first.error = "" THEN Tried(TRUE, first.parsed, "none", error_before)
    ELSE IF ~caught(first.error) THEN Tried(FALSE, NoneDecision, first.error, error_before)
    ELSE try_repaired(validate_json_output(local_json_repair(raw)), first.error)

try_candidates(raw, error_before) == try_raw(raw, validate_json_output(raw), error_before)

\* try_candidates for every reply and every value of trace.last_error.
TriedTable ==
    [raw \in Replies, error \in CaughtErrors \cup {""} |-> try_candidates(raw, error)]

\* _heuristic_route for every message.
HeuristicTable == [message \in Messages |-> heuristic_route(message)]

\* A wrong variant of attempts, which allows one attempt more.
attempts_one_more(max_retries) == Max(0, max_retries) + 2

\* attempts = max(0, max_retries) + 1
attempts_of(max_retries) == Max(0, max_retries) + 1

\* A message of the list sent to the model.  The user prompt is the variable
\* prompt; a repair request quotes an error.
Msg(role, kind, text, error) == [role |-> role, kind |-> kind, text |-> text, error |-> error]
UserPromptMsg == Msg("user", "user_prompt", <<>>, "")
first_messages == <<UserPromptMsg>>
\* A wrong variant of the messages of a later attempt, which quotes the error
\* without the reply that caused it.
repair_messages_without_reply(raw, error) ==
    <<UserPromptMsg, Msg("user", "repair_request", <<>>, error)>>
repair_messages(raw, error) ==
    <<UserPromptMsg, Msg("assistant", "raw", raw, ""), Msg("user", "repair_request", <<>>, error)>>

\* base_system_prompt: the caller's system prompt, stripped, and the fixed
\* instruction to answer with a JSON object only.
JsonOnlyInstruction ==
    "Debes responder SOLO con un objeto JSON valido. No uses markdown, no agregues texto adicional."
base_system_prompt(caller_system_prompt) ==
    [system |-> strip(caller_system_prompt), instruction |-> JsonOnlyInstruction]
NoSystemPrompt == [system |-> <<>>, instruction |-> ""]
\* The system prompt of _semantic_route_with_llm, and that of another caller
\* (the one of test_json_pipeline_repairs_markdown_and_trailing_comma, here
\* with white space around it).
RouterSystemPrompt ==
    <<"Eres un clasificador semantico de intenciones para un agente SaaS.", Space,
      "Debes devolver solo JSON con alta precision.">>
OtherSystemPrompt == <<Space, "Devuelve", Space, "JSON", Newline>>

\* The user prompt of the semantic pass: the message, history[-4:] with each
\* content cut to 160 characters, and the allowed tools.
Last4(history) == IF Len(history) <= 4 THEN history ELSE Drop(history, Len(history) - 4)
\* content[:160]
Cut160(content) == SubSeq(content, 1, IF Len(content) < 160 THEN Len(content) ELSE 160)
history_text(history) ==
    LET history_tail == Last4(history) IN
    [i \in 1..Len(history_tail) |->
        Turn(history_tail[i].role, Cut160(history_tail[i].content))]

Prompt(message, history, allowed_tools) ==
    [message |-> message, history_text |-> history, allowed_tools |-> allowed_tools]
NoPrompt == Prompt(<<>>, <<>>, <<>>)
\* The prompt of a caller other than the router.
OtherPrompt == Prompt(<<"genera", "json">>, <<>>, <<>>)

Call(kind, message, max_retries) ==
    [kind |-> kind, message |-> message, max_retries |-> max_retries]
NoCall == Call("none", <<>>, 0)

\* The outcome of a call: "returned" with the decision (NoneDecision for None),
\* "raised" with the exception, "abandoned", or "none" before any call ended.
\* For route(), semantic is what the semantic pass gave, and keys and scope are
\* the registry keys and the scope set that sanitization read.
Result(status, decision, semantic, raised, keys, scope) ==
    [status |-> status, decision |-> decision, semantic |-> semantic, raised |-> raised,
     keys |-> keys, scope |-> scope]
Outcome(status, decision, raised) == Result(status, decision, decision, raised, {}, {})
NoResult == Outcome("none", NoneDecision, "none")

\* What route() returns once the semantic pass has given semantic.
RouteReturn(message, heuristic_decision, semantic) ==
    Result("returned", route_decision(message, heuristic_decision, semantic), semantic,
           "none", registry_keys, scope_capabilities)

CallIdle ==
    /\ pc = "idle"
    /\ call = NoCall
    /\ prompt = NoPrompt
    /\ heuristic = NoneDecision
    /\ attempt = 0
    /\ messages = <<>>
    /\ system_prompt = NoSystemPrompt
    /\ llm_calls = 0
    /\ outputs = <<>>
    /\ last_error = ""
    /\ result = NoResult

\* What a finished call leaves: the caller's value and the trace, if the caller
\* is given one.
Returns(res, outs, error) ==
    /\ pc' = "idle"
    /\ result' = res
    /\ outputs' = outs
    /\ last_error' = error
    /\ messages' = <<>>
    /\ system_prompt' = NoSystemPrompt
    /\ prompt' = NoPrompt

\* route(message, history) up to its first await, or to its end when the
\* semantic pass is skipped.
RouteCall(message, history) ==
    /\ pc = "idle"
    /\ call' = Call("route", message, 2)
    /\ heuristic' = HeuristicTable[message]
    /\ attempt' = 0
    /\ IF all_ids = <<>>
       THEN /\ Returns(RouteReturn(message, HeuristicTable[message], NoneDecision), <<>>, "")
            /\ llm_calls' = 0
            /\ scope_capabilities' =
                   scope_after_filter_allowed(
                       sanitize_filtered(message, HeuristicTable[message]))
       ELSE /\ pc' = "awaiting"
            /\ prompt' = Prompt(message, history_text(history), all_ids)
            /\ messages' = first_messages
            /\ system_prompt' = base_system_prompt(RouterSystemPrompt)
            /\ llm_calls' = 1
            /\ outputs' = <<>>
            /\ last_error' = ""
            /\ result' = NoResult
            /\ scope_capabilities' = scope_capabilities
    /\ UNCHANGED <<regVars, reload_raised, lookup>>

\* generate_validated_json(..., max_retries) called on its own, up to its first await.
GuardCall(max_retries) ==
    /\ pc = "idle"
    /\ pc' = "awaiting"
    /\ call' = Call("guard", <<>>, max_retries)
    /\ prompt' = OtherPrompt
    /\ heuristic' = NoneDecision
    /\ attempt' = 0
    /\ messages' = first_messages
    /\ system_prompt' = base_system_prompt(OtherSystemPrompt)
    /\ llm_calls' = 1
    /\ outputs' = <<>>
    /\ last_error' = ""
    /\ result' = NoResult
    /\ UNCHANGED <<scope_capabilities, regVars, reload_raised, lookup>>

\* What the caller of generate_validated_json does with (parsed, trace): route()
\* goes on to fusion and sanitization, another caller just has the value.
Resume(parsed, outs, error) ==
    IF call.kind = "route"
    THEN \* the trace stays in _semantic_route_with_llm
         /\ Returns(RouteReturn(call.message, heuristic, parsed), <<>>, "")
         /\ scope_capabilities' =
                scope_after_filter_allowed(
                    sanitize_filtered(call.message, fused(heuristic, parsed)))
    ELSE /\ Returns(Outcome("returned", parsed, "none"), outs, error)
         /\ scope_capabilities' = scope_capabilities

\* The awaited model call returns raw: the rest of the iteration of the loop,
\* and what follows it up to the next await or to the end of the call.
\* tried is what the loop over the candidates of raw gave.
AfterCandidates(raw, tried) ==
    IF tried.raised # "none"
    THEN \* the exception takes the trace with it
         /\ Returns(Outcome("raised", NoneDecision, tried.raised), <<>>, "")
         /\ UNCHANGED <<attempt, llm_calls, scope_capabilities>>
    ELSE IF tried.found \/ attempt >= attempts_of(call.max_retries) - 1
    THEN /\ Resume(tried.parsed, Append(outputs, raw), tried.last_error)
         /\ UNCHANGED <<attempt, llm_calls>>
    ELSE /\ pc' = "awaiting"
         /\ attempt' = attempt + 1
         /\ messages' = repair_messages(raw, tried.last_error)
         /\ llm_calls' = llm_calls + 1
         /\ outputs' = Append(outputs, raw)
         /\ last_error' = tried.last_error
         /\ UNCHANGED <<prompt, system_prompt, result, scope_capabilities>>

ModelReplies(raw) ==
    /\ pc = "awaiting"
    /\ AfterCandidates(raw, TriedTable[raw, last_error])
    /\ UNCHANGED <<call, heuristic, regVars, reload_raised, lookup>>

\* What the awaited model call raises when it fails (a connection error, a
\* timeout of the client).
ClientError == "ClientError"

\* A variant of ModelFails in which the failure is caught and noted, and the
\* caller is given the heuristic decision and the replies recorded so far.
ModelFailsHandled ==
    /\ pc = "awaiting"
    /\ Returns(Outcome("returned", heuristic, ClientError), outputs, "")
    /\ UNCHANGED <<call, heuristic, attempt, llm_calls>>
    /\ UNCHANGED <<scope_capabilities, regVars, reload_raised, lookup>>

\* The awaited model call raises: the await of generate_validated_json is
\* outside every try, and neither _semantic_route_with_llm nor route() has a
\* handler, so the exception leaves the call and takes the trace with it.
ModelFails ==
    /\ pc = "awaiting"
    /\ Returns(Outcome("raised", NoneDecision, ClientError), <<>>, "")
    /\ UNCHANGED <<call, heuristic, attempt, llm_calls>>
    /\ UNCHANGED <<scope_capabilities, regVars, reload_raised, lookup>>

\* The caller abandons the awaited call (cancellation): the coroutine is dropped
\* where it waits.
Abandon ==
    /\ pc = "awaiting"
    /\ Returns(Outcome("abandoned", NoneDecision, "none"), <<>>, "")
    /\ UNCHANGED <<call, heuristic, attempt, llm_calls>>
    /\ UNCHANGED <<scope_capabilities, regVars, reload_raised, lookup>>

(***************************************************************************)
(* Spec: calls of route() and of generate_validated_json(), one at a time,  *)
(* with reloads of the registry and of the scope at any point between two  *)
(* steps of a call.                                                        *)
(***************************************************************************)
RouterScopeDocs == {ScopeMissing, ScopeChatOnly, ScopeNoChat, ScopeCore, ScopeFull}
RouterRegistryDocs == {DocMissing, DocCatalog, DocNoChat}

\* The router is given a registry built with the scope it is given itself.
Init ==
    /\ InitRegistryFrom(RouterRegistryDocs, RouterScopeDocs, {TRUE})
    /\ CallIdle

Route == \E message \in Messages : \E history \in Histories : RouteCall(message, history)
Guard == \E max_retries \in (-1)..MaxGuardRetries : GuardCall(max_retries)
Reply == \E raw \in Replies : ModelReplies(raw)
ReloadScope == \E doc \in RouterScopeDocs : ScopeReloadWith(doc)
ReloadRegistry == \E doc \in RouterRegistryDocs : RegistryReloadWith(doc)

Next ==
    \/ Route
    \/ Guard
    \/ Reply
    \/ ModelFails
    \/ Abandon
    \/ ReloadScope
    \/ ReloadRegistry

Spec == Init /\ [][Next]_vars

(***************************************************************************)
(* SpecRegistry: the registry and the scope alone, constructed from any    *)
(* generated or hand-written document, then reloaded and queried.          *)
(***************************************************************************)
InitRegistry ==
    /\ InitRegistryFrom(GenDocs \cup ReloadDocs, ScopeDocs, BOOLEAN)
    /\ CallIdle

ScopeReload == \E doc \in ScopeDocs : ScopeReloadWith(doc)
RegistryReload == \E doc \in ReloadDocs : RegistryReloadWith(doc)
RegistryGet == \E id \in LookupIds : LookupGet(id)
RegistryResolveChain == \E id \in LookupIds : LookupResolveChain(id)

NextRegistry ==
    \/ ScopeReload
    \/ RegistryReload
    \/ RegistryGet
    \/ LookupAllIds
    \/ RegistryResolveChain

SpecRegistry == InitRegistry /\ [][NextRegistry]_vars

(***************************************************************************)
(* SpecScope: the scope alone, constructed from any scope document, then   *)
(* reloaded and asked to filter lists of ids.                              *)
(***************************************************************************)
\* Bound of the lists given to filter_allowed: their length.
MaxFilterLen == 4

\* An id that scope documents list, another, and one that no document lists.
FilterIds == {"chat_general", "web_search_general", "tool_y"}
FilterInputs == SeqsUpTo(FilterIds, MaxFilterLen)

InitScope ==
    /\ InitRegistryFrom({DocMissing}, ScopeDocs, {TRUE})
    /\ CallIdle

ScopeFilterAllowed == \E capability_ids \in FilterInputs : LookupFilterAllowed(capability_ids)

NextScope ==
    \/ ScopeReload
    \/ ScopeFilterAllowed

SpecScope == InitScope /\ [][NextScope]_vars


(***************************************************************************)
(* SpecHeuristic: the heuristic pass alone, on every message of at most    *)
(* MaxMessageWords words of a vocabulary with a word or phrase of each     *)
(* detector.                                                               *)
(***************************************************************************)
MaxMessageWords == 3
HeuristicWords == {"recordatorio", "borra", "toda", "memoria", "actualiza", "mi", "perfil",
                   "recuerda", "que", "busca", "noticias", "hoy", "hola", "es", "precio"}
HeuristicMessages == SeqsUpTo(HeuristicWords, MaxMessageWords)

\* A call of _heuristic_route on a message is about to be made.
InitHeuristic ==
    /\ InitRegistryFrom({DocMissing}, {ScopeMissing}, {TRUE})
    /\ pc = "idle"
    /\ call \in {Call("pending", message, 0) : message \in HeuristicMessages}
    /\ prompt = NoPrompt
    /\ heuristic = NoneDecision
    /\ attempt = 0
    /\ messages = <<>>
    /\ system_prompt = NoSystemPrompt
    /\ llm_calls = 0
    /\ outputs = <<>>
    /\ last_error = ""
    /\ result = NoResult

\* self._heuristic_route(message), as route() calls it first.
HeuristicRoute ==
    /\ call.kind = "pending"
    /\ call' = Call("heuristic", call.message, 0)
    /\ heuristic' = heuristic_route(call.message)
    /\ UNCHANGED <<pc, prompt, attempt, messages, system_prompt, llm_calls, outputs,
                   last_error, result>>
    /\ UNCHANGED <<scope_capabilities, regVars, reload_raised, lookup>>

NextHeuristic == HeuristicRoute

SpecHeuristic == InitHeuristic /\ [][NextHeuristic]_vars


(***************************************************************************)
(* SpecExtract: _extract_first_json_object alone, on every text of at most *)
(* MaxTextLen characters of an alphabet with the braces, the quote, the    *)
(* backslash and a letter, and on a few longer texts.                      *)
(***************************************************************************)
MaxTextLen == 6
ExtractAlphabet == {"{", "}", Quote, Backslash, "a"}

\* noise {"a": "b{c}"} trailing
TextNoise ==
    <<"noise", Space, "{", Quote, "a", Quote, ":", Space, Quote, "b", "{", "c", "}", Quote,
      "}", Space, "trailing">>
\* x {"a": "b\"}"} y
TextEscapedQuote ==
    <<"x", Space, "{", Quote, "a", Quote, ":", Space, Quote, "b", Backslash, Quote, "}",
      Quote, "}", Space, "y">>
\* ```json\n{"a":1} }\n``` and ```\nx {"a":1}\n```
TextFencedSpan == <<Fence, "json", Newline, "{", Quote, "a", Quote, ":", "1", "}", Space, "}",
                    Newline, Fence>>
TextFencedProse == <<Fence, Newline, "x", Space, "{", Quote, "a", Quote, ":", "1", "}",
                     Newline, Fence>>

ExtractTexts ==
    SeqsUpTo(ExtractAlphabet, MaxTextLen)
        \cup {TextNoise, TextEscapedQuote, TextFencedSpan, TextFencedProse}

\* A call of _extract_first_json_object on a text is about to be made.
InitExtract ==
    /\ InitRegistryFrom({DocMissing}, {ScopeMissing}, {TRUE})
    /\ pc = "idle"
    /\ call \in {Call("pending", text, 0) : text \in ExtractTexts}
    /\ prompt = NoPrompt
    /\ heuristic = NoneDecision
    /\ attempt = 0
    /\ messages = <<>>
    /\ system_prompt = NoSystemPrompt
    /\ llm_calls = 0
    /\ outputs = <<>>
    /\ last_error = ""
    /\ result = NoResult

\* _extract_first_json_object(text); the value it returns is kept in outputs.
ExtractFirstJsonObject ==
    /\ call.kind = "pending"
    /\ call' = Call("extract", call.message, 0)
    /\ outputs' = <<extract_first_json_object(call.message)>>
    /\ UNCHANGED <<pc, prompt, heuristic, attempt, messages, system_prompt, llm_calls,
                   last_error, result>>
    /\ UNCHANGED <<scope_capabilities, regVars, reload_raised, lookup>>

NextExtract == ExtractFirstJsonObject

SpecExtract == InitExtract /\ [][NextExtract]_vars

(***************************************************************************)
(* Claims about the registry (checked under SpecRegistry).                 *)
(***************************************************************************)
AnyId == IdSpans \cup {"tool_y", BadSpan}

\* C8: a reload() on a missing or structurally invalid document (missing file,
\* schema mismatch, unparsable or non-mapping content) leaves an empty capability
\* map and returns without raising.
C8_FailedReloadClearsAndReturns ==
    [][\A doc \in FailingDocs :
          RegistryReloadWith(doc) => (reg_capabilities' = <<>> /\ reload_raised' = "none")]_vars

\* C9: get(id) finds a definition exactly when id is a key of the snapshot and no
\* scope is attached or the scope allows id; all_ids() lists exactly the ids get
\* finds, so it is within the registry keys and, with a scope attached, the scope.
C9_GetAndAllIds ==
    /\ \A id \in AnyId :
         /\ get(id) # NoneCap <=>
               (id \in registry_keys /\ (~reg_product_scope \/ id \in scope_capabilities))
         /\ get(id) # NoneCap => get(id).id = id
    /\ Range(all_ids) = {id \in AnyId : get(id) # NoneCap}
    /\ Range(all_ids) \subseteq registry_keys
    /\ reg_product_scope => Range(all_ids) \subseteq scope_capabilities
    /\ lookup.op = "get" => (lookup.found <=> get(lookup.arg) # NoneCap)
    /\ lookup.op = "all_ids" => Range(lookup.ids) = {id \in AnyId : get(id) # NoneCap}

\* C9 witness: a get on an id the snapshot holds but the attached scope denies
\* answered "not found", as it does for an id the snapshot does not hold.
C9_Witness ==
    /\ lookup.op = "get"
    /\ lookup.arg \in registry_keys
    /\ reg_product_scope
    /\ lookup.arg \notin scope_capabilities
    /\ ~lookup.found
    /\ Len(all_ids) > 0
    /\ Len(all_ids) < Len(reg_capabilities)

\* The positions of fallback_to that the chain keeps: the id resolves, is not the
\* primary and does not occur at an earlier position.
KeptFallbackPositions(primary, fallback_to) ==
    {i \in 1..Len(fallback_to) :
        /\ get(fallback_to[i]) # NoneCap
        /\ fallback_to[i] # primary
        /\ \A j \in 1..(i - 1) : fallback_to[j] # fallback_to[i]}

IsSubsequenceAt(chain, primary, fallback_to) ==
    LET P == KeptFallbackPositions(primary, fallback_to) IN
    /\ Len(chain) = 1 + Cardinality(P)
    /\ chain[1] = primary
    /\ \A i \in P :
         chain[1 + Cardinality({j \in P : j <= i})] = fallback_to[i]

ChainAsClaimed(primary, chain) ==
    IF get(primary) = NoneCap THEN chain = <<>>
    ELSE /\ IsSubsequenceAt(chain, primary, get(primary).fallback_to)
         /\ NoDup(chain)
         /\ \A i \in 1..Len(chain) : get(chain[i]) # NoneCap

\* C10: resolve_chain(primary) is empty when get(primary) fails; otherwise it is
\* primary followed by the ids of primary's own fallback_to that resolve via get,
\* in declared order, each at its first occurrence only; so it has no duplicate
\* and every id in it resolves.
C10_ResolveChain ==
    /\ \A id \in AnyId : ChainAsClaimed(id, resolve_chain(id))
    /\ lookup.op = "resolve_chain" => ChainAsClaimed(lookup.arg, lookup.ids)

\* C10 witness: a chain of two or more ids was returned for a primary whose
\* fallback_to repeats an id, names the primary itself and names an id that does
\* not resolve.
C10_Witness ==
    /\ lookup.op = "resolve_chain"
    /\ Len(lookup.ids) >= 2
    /\ LET fb == get(lookup.arg).fallback_to IN
       /\ ~NoDup(fb)
       /\ \E i \in 1..Len(fb) : get(fb[i]) = NoneCap
       /\ \E i \in 1..Len(fb) : fb[i] = lookup.arg
       /\ Len(lookup.ids) < 1 + Cardinality(Range(fb))


(***************************************************************************)
(* Claims about the router and the guard (checked under Spec).             *)
(***************************************************************************)
\* A route() call has returned; result holds its decision, the decision of the
\* semantic pass, and the registry keys and scope set that sanitization read.
RouteReturned == call.kind = "route" /\ result.status = "returned"

\* The decision that fusion handed to sanitization in the call that returned.
Winner == IF semantic_wins(heuristic, result.semantic) THEN result.semantic ELSE heuristic

\* C1: every id in the candidate_tools of the decision route() returns is present
\* in the registry snapshot and allowed by the scope.
C1_ToolsInRegistryAndScope ==
    RouteReturned =>
        \A i \in 1..Len(result.decision.candidate_tools) :
            /\ result.decision.candidate_tools[i] \in result.keys
            /\ result.decision.candidate_tools[i] \in result.scope

\* C2: whenever chat_general is allowed by the scope, route() returns a non-empty
\* candidate_tools, whatever the tools of the winning decision are.
C2_NonEmptyWhenChatAllowed ==
    (RouteReturned /\ "chat_general" \in result.scope) =>
        result.decision.candidate_tools # <<>>

\* C2 witness: the semantic decision won, it proposed tools none of which is both
\* in the registry and in the scope, chat_general is in the scope but not in the
\* registry, and the decision returned has chat_general alone.
C2_Witness ==
    /\ RouteReturned
    /\ "chat_general" \in result.scope
    /\ "chat_general" \notin result.keys
    /\ Winner = result.semantic
    /\ Winner.candidate_tools # <<>>
    /\ \A i \in 1..Len(Winner.candidate_tools) :
           Winner.candidate_tools[i] \notin (result.keys \cap result.scope)
    /\ result.decision.candidate_tools = <<"chat_general">>

\* The fusion rule in exact decimal arithmetic: the confidences are compared as
\* the numbers of hundredths they were written as.
Hundredths(x) == x.c
decimal_wins(heuristic_decision, semantic) ==
    /\ semantic # NoneDecision
    /\ Hundredths(semantic.confidence) >=
           Max(35, Hundredths(heuristic_decision.confidence) - 10)

\* A step in which route() returns: at once when the semantic pass is skipped, or
\* when the reply of the model ends the semantic pass.
RouteReturns ==
    /\ result'.status = "returned"
    /\ \/ \E message \in Messages : \E history \in Histories : RouteCall(message, history)
       \/ call.kind = "route" /\ \E raw \in Replies : ModelReplies(raw)

\* C3: route() returns the sanitized semantic decision if and only if the semantic
\* pass gave a decision with confidence >= max(0.35, heuristic confidence - 0.10),
\* the threshold included; otherwise it returns the sanitized heuristic decision.
C3_FusionInclusiveAtThreshold ==
    [][RouteReturns =>
          result'.decision =
              sanitize_decision(call'.message,
                                IF decimal_wins(heuristic', result'.semantic)
                                THEN result'.semantic ELSE heuristic')]_vars

\* The candidates of a reply, without the loop: whether raw or its local repair
\* parses and validates, and the value of the first of the two that does.
has_valid_candidate(raw) ==
    \/ validate_json_output(raw).error = ""
    \/ validate_json_output(local_json_repair(raw)).error = ""
valid_candidate(raw) ==
    IF validate_json_output(raw).error = "" THEN validate_json_output(raw).parsed
    ELSE validate_json_output(local_json_repair(raw)).parsed
ValidTable ==
    [raw \in Replies |->
        [has |-> has_valid_candidate(raw),
         value |-> IF has_valid_candidate(raw) THEN valid_candidate(raw) ELSE NoneDecision]]

\* While generate_validated_json awaits the reply of attempt k, it has called the
\* model k + 1 times, k <= max(0, max_retries), and trace.outputs holds the k
\* replies received, none of which had a valid candidate.
GuardAwaiting ==
    pc = "awaiting" =>
        /\ llm_calls = attempt + 1
        /\ Len(outputs) = attempt
        /\ attempt <= Max(0, call.max_retries)
        /\ \A i \in 1..Len(outputs) : ~ValidTable[outputs[i]].has

\* C4: when the reply of attempt k is the first with a candidate (raw or repaired)
\* that parses and validates, generate_validated_json returns that value, the
\* model has been called exactly k + 1 times, trace.outputs holds exactly the
\* k + 1 replies in the order received, and no model call follows.
C4_FirstValidReplyReturned ==
    [][\A raw \in Replies :
          (call.kind = "guard" /\ pc = "awaiting" /\ ValidTable[raw].has /\ ModelReplies(raw)) =>
              /\ GuardAwaiting
              /\ pc' = "idle"
              /\ result' = Outcome("returned", ValidTable[raw].value, "none")
              /\ outputs' = Append(outputs, raw)
              /\ llm_calls' = attempt + 1
              /\ llm_calls' = Len(outputs')]_vars

\* C4 witness: with max_retries = 2 two replies without a valid candidate and a
\* third with one, whose raw text needed the local repair, gave the value and
\* three outputs after three calls.
C4_Witness ==
    /\ call.kind = "guard"
    /\ call.max_retries = 2
    /\ result.status = "returned"
    /\ result.decision # NoneDecision
    /\ Len(outputs) = 3
    /\ llm_calls = 3
    /\ ~ValidTable[outputs[1]].has
    /\ ~ValidTable[outputs[2]].has
    /\ validate_json_output(outputs[3]).error # ""
    /\ result.decision = ValidTable[outputs[3]].value

\* C5: when no candidate of any reply validates, generate_validated_json makes
\* exactly max(0, max_retries) + 1 model calls and then returns (None, trace)
\* without raising, trace.outputs holding that many replies and trace.last_error
\* being non-empty.
C5_ExhaustedReturnsNone ==
    (/\ call.kind = "guard"
     /\ result.status \in {"returned", "raised"}
     /\ result.decision = NoneDecision) =>
        /\ result.status = "returned"
        /\ llm_calls = attempts_of(call.max_retries)
        /\ Len(outputs) = attempts_of(call.max_retries)
        /\ last_error # ""

\* C6: route() ends with a RouteDecision and never raises to its caller, whatever
\* the message, the history, the registry and scope state and the model replies.
C6_RouteNeverRaises ==
    (call.kind = "route" /\ pc = "idle" /\ result.status # "abandoned") =>
        /\ result.status = "returned"
        /\ result.decision # NoneDecision

\* A step of a route() call: its start, the arrival of a reply, its abandonment.
RouteStep ==
    \/ \E message \in Messages : \E history \in Histories : RouteCall(message, history)
    \/ call.kind = "route" /\ \E raw \in Replies : ModelReplies(raw)
    \/ call.kind = "route" /\ Abandon

\* C7: a step that changes the registry snapshot or the scope set is no step of a
\* route() call (its start, the arrival of a reply, its abandonment),
\* so at every point of the call, also where it is abandoned, they differ from
\* their values at the start of the call only by the reloads that ran meanwhile.
C7_RouteLeavesRegistryAndScope ==
    [][UNCHANGED <<scope_capabilities, regVars>> \/ ~RouteStep]_vars

\* C7 witness: a route() call was abandoned while it awaited its second model
\* call, with a registry and a scope that list tools.
C7_Witness ==
    /\ call.kind = "route"
    /\ result.status = "abandoned"
    /\ llm_calls = 2
    /\ Len(all_ids) >= 2
    /\ \E id \in scope_capabilities : id \notin Range(all_ids)


\* C19: each reload() replaces the snapshot as a unit: after the reload, version,
\* updated_at and the capability map are all what the document of this reload
\* gives, as in a registry constructed on that document, whatever the reloads
\* before it left; no field is kept from an earlier load beside a field of this one.
C19_ReloadReplacesSnapshot ==
    [][\A doc \in ReloadDocs :
          RegistryReloadWith(doc) =>
              /\ reg_version' = reload_result(FreshSnapshot, doc).version
              /\ reg_updated_at' = reload_result(FreshSnapshot, doc).updated_at
              /\ reg_capabilities' = reload_result(FreshSnapshot, doc).capabilities]_vars

(***************************************************************************)
(* Claims about the scope (checked under SpecScope).                       *)
(***************************************************************************)
\* The positions of capability_ids that hold an allowed id for the first time.
AllowedFirstPositions(capability_ids) ==
    {i \in 1..Len(capability_ids) :
        /\ capability_ids[i] \in scope_capabilities
        /\ \A j \in 1..(i - 1) : capability_ids[j] # capability_ids[i]}

\* out is the subsequence of capability_ids at the positions P.
IsSubsequenceAtPositions(out, capability_ids, P) ==
    /\ Len(out) = Cardinality(P)
    /\ \A i \in P : out[Cardinality({j \in P : j <= i})] = capability_ids[i]

\* C11: filter_allowed(ids) returns the subsequence of ids made of the first
\* occurrence of each allowed id, in input order; filtering its result again
\* gives the same list; and the call leaves the scope set unchanged.
C11_FilterAllowed ==
    [][\A capability_ids \in FilterInputs :
          LookupFilterAllowed(capability_ids) =>
              /\ IsSubsequenceAtPositions(lookup'.ids, capability_ids,
                                          AllowedFirstPositions(capability_ids))
              /\ filter_allowed(lookup'.ids) = lookup'.ids
              /\ scope_capabilities' = scope_capabilities]_vars

\* C11 witness: a list with a repeated allowed id and an id that is not allowed
\* was filtered to two or more ids, fewer than the distinct ids given.
C11_Witness ==
    /\ lookup.op = "filter_allowed"
    /\ \E i, j \in 1..Len(lookup.input) :
          i < j /\ lookup.input[i] = lookup.input[j] /\ lookup.input[i] \in scope_capabilities
    /\ \E i \in 1..Len(lookup.input) : lookup.input[i] \notin scope_capabilities
    /\ Len(lookup.ids) >= 2
    /\ Len(lookup.ids) < Cardinality(Range(lookup.input))

(***************************************************************************)
(* Further claims about the router (checked under Spec).                   *)
(***************************************************************************)
\* C12: with an empty scope attached, all_ids() is empty, every route() call
\* started then returns at once, without a model call, with candidate_tools = [],
\* and so does every call whose sanitization read an empty scope.
C12_EmptyScopeNoTools ==
    [][/\ (reg_product_scope /\ scope_capabilities = {}) => all_ids = <<>>
       /\ (RouteReturned /\ result.scope = {}) => result.decision.candidate_tools = <<>>
       /\ scope_capabilities = {} =>
             \A message \in Messages : \A history \in Histories :
                 RouteCall(message, history) =>
                     /\ result'.status = "returned"
                     /\ result'.decision.candidate_tools = <<>>
                     /\ llm_calls' = 0]_vars

\* C12 witness: with an empty scope and a registry that holds a tool the
\* heuristic decision proposes, route() returned no tool and called no model.
C12_Witness ==
    /\ RouteReturned
    /\ result.scope = {}
    /\ scope_capabilities = {}
    /\ llm_calls = 0
    /\ \E i \in 1..Len(heuristic.candidate_tools) : heuristic.candidate_tools[i] \in result.keys
    /\ result.decision.candidate_tools = <<>>

\* A step in which route() is called: the only steps taken while no call is in
\* progress that change the variables of the call and lead to a route() call.
RouteStarts ==
    /\ pc = "idle"
    /\ call'.kind = "route"
    /\ attempt' = 0
    /\ lookup' = lookup
    /\ reload_raised' = reload_raised
    /\ regVars' = regVars
    /\ callVars' # callVars

\* C13: when all_ids() is empty at the start of the semantic pass, route() calls
\* the model zero times and returns the sanitized heuristic decision; when it is
\* not, route() makes between 1 and 3 model calls, each made only after the reply
\* to the one before has been received.
C13_ModelCallsOfRoute ==
    [][/\ RouteStarts =>
                 IF all_ids = <<>>
                 THEN /\ llm_calls' = 0
                      /\ pc' = "idle"
                      /\ result'.status = "returned"
                      /\ result'.decision = sanitize_decision(call'.message, heuristic')
                 ELSE /\ llm_calls' = 1
                      /\ pc' = "awaiting"
       /\ (call.kind = "route" /\ pc = "awaiting") =>
             /\ llm_calls \in 1..3
             /\ llm_calls = Len(outputs) + 1
             /\ llm_calls' # llm_calls =>
                   \/ /\ llm_calls' = llm_calls + 1
                      /\ pc' = "awaiting"
                      /\ Len(outputs') = Len(outputs) + 1
                   \/ pc' = "awaiting" /\ llm_calls' = 1 /\ outputs' = <<>>
                   \/ pc' = "idle" /\ llm_calls' = 0
       /\ (call.kind = "route" /\ pc = "idle") => llm_calls \in 0..3]_vars

\* C13 witness: a route() call with tools allowed made three model calls, none of
\* which gave a decision, and returned.
C13_Witness ==
    /\ RouteReturned
    /\ llm_calls = 3
    /\ result.semantic = NoneDecision
    /\ result.keys \cap result.scope # {}


\* An id is allowed when the registry lists it: it is a key of the registry and a
\* member of the scope, as read by the sanitization of the call that returned.
Allowed(id) == id \in result.keys /\ id \in result.scope

\* The heuristic decision won fusion in the call that returned.
HeuristicWon == ~semantic_wins(heuristic, result.semantic)

\* The call that returned was for a message that the web-search detector matched
\* (and no earlier detector) and that has a temporal reference, with the three
\* tools allowed and the heuristic decision winning fusion.
WebSearchWithTemporal ==
    /\ RouteReturned
    /\ heuristic.intent = "web_search"
    /\ has_temporal_reference(call.message)
    /\ Allowed("web_search_general")
    /\ Allowed("get_current_datetime")
    /\ Allowed("chat_general")
    /\ HeuristicWon

\* intent web_search, entities.temporal_reference = true, candidate_tools
\* beginning with get_current_datetime, web_search_general, no id repeated.
DatetimeThenGeneral(decision) ==
    /\ decision.intent = "web_search"
    /\ has_key(decision.entities, "temporal_reference")
    /\ dict_get(decision.entities, "temporal_reference") = PyBool(TRUE)
    /\ Len(decision.candidate_tools) >= 2
    /\ decision.candidate_tools[1] = "get_current_datetime"
    /\ decision.candidate_tools[2] = "web_search_general"
    /\ NoDup(decision.candidate_tools)

\* C14 as stated: for a message that matches the web-search detector (and no
\* earlier one) and has a temporal reference, with web_search_general,
\* get_current_datetime and chat_general allowed and the heuristic decision
\* winning, route() returns intent web_search, temporal_reference true and
\* candidate_tools beginning with get_current_datetime, web_search_general, with
\* no id repeated.
C14_WebSearchBeginsDatetimeGeneral ==
    WebSearchWithTemporal => DatetimeThenGeneral(result.decision)

\* C14 amended: the same, for a message that NEWS_HINT_RE does not match or with
\* web_search_news not allowed; a news message with web_search_news allowed gets
\* web_search_news between get_current_datetime and web_search_general.
C14_WebSearchBeginsDatetimeGeneralUnlessNews ==
    /\ (WebSearchWithTemporal /\ ~(NEWS_HINT(call.message) /\ Allowed("web_search_news")))
           => DatetimeThenGeneral(result.decision)
    /\ (WebSearchWithTemporal /\ NEWS_HINT(call.message) /\ Allowed("web_search_news"))
           => /\ Len(result.decision.candidate_tools) >= 3
              /\ SubSeq(result.decision.candidate_tools, 1, 3) =
                     <<"get_current_datetime", "web_search_news", "web_search_general">>
              /\ NoDup(result.decision.candidate_tools)

\* C14 witness: the news message, with web_search_news not allowed, returned
\* get_current_datetime, web_search_general, chat_general after three model
\* replies that gave no decision.
C14_Witness ==
    /\ WebSearchWithTemporal
    /\ NEWS_HINT(call.message)
    /\ ~Allowed("web_search_news")
    /\ result.semantic = NoneDecision
    /\ llm_calls = 3
    /\ result.decision.candidate_tools =
           <<"get_current_datetime", "web_search_general", "chat_general">>


\* The capability that _sanitize_decision puts at the front for an intent.
PrimaryIntents == {"memory_store", "memory_recall", "memory_update", "memory_delete",
                   "memory_purge", "web_search"}
PrimaryOf(intent) ==
    CASE intent = "memory_store" -> "memory_store_user_fact"
      [] intent = "memory_recall" -> "memory_recall_profile"
      [] intent = "memory_update" -> "memory_update_user_fact"
      [] intent = "memory_delete" -> "memory_delete_user_fact"
      [] intent = "memory_purge" -> "memory_purge_all"
      [] intent = "web_search" -> "web_search_general"

\* C15: when the canonical intent of the winning decision is one of the five
\* memory intents or web_search and the capability that matches it is allowed,
\* that capability is the first element of the candidate_tools route() returns,
\* whatever tools the decision proposed.
C15_PrimaryToolFirst ==
    (/\ RouteReturned
     /\ intent_alias(Winner.intent) \in PrimaryIntents
     /\ Allowed(PrimaryOf(intent_alias(Winner.intent)))) =>
        /\ result.decision.candidate_tools # <<>>
        /\ result.decision.candidate_tools[1] = PrimaryOf(intent_alias(Winner.intent))


\* The nine intents of the vocabulary.
IntentVocabulary ==
    {"general_chat", "web_search", "time_sensitive_answer", "reminder_management",
     "memory_store", "memory_recall", "memory_update", "memory_delete", "memory_purge"}

\* C16: the intent of every decision route() returns is one of the nine strings
\* of the vocabulary, whichever decision won, and the synonyms memory_edit,
\* memory_forget, memory_wipe and memory_reset of the winning decision are
\* returned as memory_update, memory_delete, memory_purge and memory_purge.
C16_IntentInVocabulary ==
    RouteReturned =>
        /\ result.decision.intent \in IntentVocabulary
        /\ Winner.intent = "memory_edit" => result.decision.intent = "memory_update"
        /\ Winner.intent = "memory_forget" => result.decision.intent = "memory_delete"
        /\ Winner.intent \in {"memory_wipe", "memory_reset"} =>
               result.decision.intent = "memory_purge"


\* C17: the entities of every decision route() returns have an entry
\* temporal_reference whose value is a boolean, whether the heuristic or the
\* semantic decision won, also when the reply of the model had entities {}.
C17_EntitiesHaveTemporalReference ==
    RouteReturned =>
        /\ has_key(result.decision.entities, "temporal_reference")
        /\ dict_get(result.decision.entities, "temporal_reference").t = "bool"


\* C18: the confidence of every decision route() returns is at least 0.05 and at
\* most 1.0, and its clarification_question is non-empty whenever its
\* needs_clarification is true.
C18_ConfidenceAndQuestion ==
    RouteReturned =>
        /\ float_ge(result.decision.confidence, float_of(5))
        /\ ~float_gt(result.decision.confidence, float_of(100))
        /\ result.decision.needs_clarification => result.decision.clarification_question # ""

\* C18 witness: the semantic decision won, it asked for clarification with no
\* question, and the decision returned has the synthesized question.
C18_Witness ==
    /\ RouteReturned
    /\ Winner = result.semantic
    /\ result.semantic.needs_clarification
    /\ result.semantic.clarification_question = ""
    /\ result.decision.needs_clarification
    /\ result.decision.clarification_question = DefaultQuestion
    /\ result.decision.confidence = float_of(60)


\* C20: when the winning decision has intent reminder_management and
\* reminder_update and reminder_postpone are allowed, the candidate_tools that
\* route() returns contains reminder_update and reminder_postpone beside the
\* allowed reminder tools the decision proposed.
C20_ReminderUpdateAndPostpone ==
    (/\ RouteReturned
     /\ intent_alias(Winner.intent) = "reminder_management"
     /\ Allowed("reminder_update")
     /\ Allowed("reminder_postpone")) =>
        /\ "reminder_update" \in Range(result.decision.candidate_tools)
        /\ "reminder_postpone" \in Range(result.decision.candidate_tools)
        /\ \A i \in 1..Len(Winner.candidate_tools) :
               Allowed(Winner.candidate_tools[i]) =>
                   Winner.candidate_tools[i] \in Range(result.decision.candidate_tools)


(***************************************************************************)
(* Claims about the heuristic pass within route() (checked under Spec).    *)
(***************************************************************************)
\* C21: when a message matches both the memory-delete detector and the reminder
\* detector and the semantic pass does not win fusion, route() returns intent
\* memory_delete, with memory_delete_user_fact among the tools when it is allowed.
C21_MemoryDeleteOverReminder ==
    (/\ RouteReturned
     /\ MEMORY_DELETE_HINT(call.message)
     /\ REMINDER_HINT(call.message)
     /\ HeuristicWon) =>
        /\ result.decision.intent = "memory_delete"
        /\ Allowed("memory_delete_user_fact") =>
               "memory_delete_user_fact" \in Range(result.decision.candidate_tools)

\* The messages that mention reminders without asking for a reminder action.
ReminderMentions == {MsgMention}

\* C22: when a message merely mentions reminders and the semantic pass does not
\* win fusion, route() returns intent general_chat, with chat_general among the
\* tools when it is allowed, and not reminder_management.
C22_ReminderMentionIsGeneralChat ==
    (/\ RouteReturned
     /\ call.message \in ReminderMentions
     /\ HeuristicWon) =>
        /\ result.decision.intent = "general_chat"
        /\ Allowed("chat_general") =>
               "chat_general" \in Range(result.decision.candidate_tools)


(***************************************************************************)
(* Claims about the heuristic pass (checked under SpecHeuristic).          *)
(***************************************************************************)
\* The detectors in the order claimed, with the intent and the confidence (in
\* hundredths) each gives.
DetectorIntents ==
    <<"reminder_management", "memory_purge", "memory_update", "memory_delete",
      "memory_recall", "memory_store", "web_search", "time_sensitive_answer", "general_chat">>
DetectorConfidences == <<80, 76, 72, 72, 73, 73, 78, 70, 55>>

DetectorMatches(k, message) ==
    CASE k = 1 -> REMINDER_HINT(message)
      [] k = 2 -> MEMORY_PURGE_HINT(message)
      [] k = 3 -> MEMORY_UPDATE_HINT(message)
      [] k = 4 -> MEMORY_DELETE_HINT(message)
      [] k = 5 -> MEMORY_RECALL_HINT(message)
      [] k = 6 -> MEMORY_STORE_HINT(message)
      [] k = 7 -> extract_search_intent(message) # <<>> \/ WEB_HINT(message)
      [] k = 8 -> has_temporal_reference(message)
      [] k = 9 -> TRUE

DetectorTools(k, message) ==
    CASE k = 1 -> <<"reminder_create", "reminder_list", "reminder_delete">>
      [] k = 2 -> <<"memory_purge_all", "chat_general">>
      [] k = 3 -> <<"memory_update_user_fact", "memory_recall_profile">>
      [] k = 4 -> <<"memory_delete_user_fact", "memory_recall_profile">>
      [] k = 5 -> <<"memory_recall_profile", "memory_retrieval">>
      [] k = 6 -> <<"memory_store_user_fact", "memory_store_summary">>
      [] k = 7 -> <<IF NEWS_HINT(message) THEN "web_search_news" ELSE "web_search_general",
                    "web_search_general", "chat_general">>
      [] k = 8 -> <<"get_current_datetime", "chat_general">>
      [] k = 9 -> <<"chat_general">>

FirstDetector(message) ==
    CHOOSE k \in 1..9 :
        DetectorMatches(k, message) /\ \A j \in 1..(k - 1) : ~DetectorMatches(j, message)

MatchingDetectors(message) == {k \in 1..9 : DetectorMatches(k, message)}

\* C23: the heuristic decision of a message is that of the first detector, in the
\* order reminder, purge, update, delete, recall, store, web search, temporal,
\* default, that matches the message: its intent, its fixed confidence and its
\* default tool list, whichever later detectors match as well; being a function
\* of the message alone, it is the same each time.
C23_FirstDetectorWins ==
    call.kind = "heuristic" =>
        /\ heuristic.intent = DetectorIntents[FirstDetector(call.message)]
        /\ heuristic.confidence = float_of(DetectorConfidences[FirstDetector(call.message)])
        /\ heuristic.candidate_tools = DetectorTools(FirstDetector(call.message), call.message)
        /\ heuristic = heuristic_route(call.message)

\* C23 witness: a message that the purge detector, the delete detector and the
\* default match got the purge decision.
C23_Witness ==
    /\ call.kind = "heuristic"
    /\ {2, 4} \subseteq MatchingDetectors(call.message)
    /\ 1 \notin MatchingDetectors(call.message)
    /\ heuristic.intent = "memory_purge"
    /\ heuristic.confidence = float_of(76)


(***************************************************************************)
(* Claims about the guard's model calls (checked under Spec).              *)
(***************************************************************************)
\* The validation error recorded for a reply none of whose candidates validated:
\* that of its repaired candidate, the last one tried.
RecordedError == [raw \in Replies |-> validate_json_output(local_json_repair(raw)).error]

\* The system prompt the call in progress was given, augmented.
AugmentedSystemPrompt ==
    base_system_prompt(IF call.kind = "route" THEN RouterSystemPrompt ELSE OtherSystemPrompt)

\* The messages and the system prompt of the model call awaited are those claimed
\* for attempt number attempt.
AttemptSendsAsClaimed ==
    /\ system_prompt = AugmentedSystemPrompt
    /\ system_prompt.system = strip(system_prompt.system)
    /\ IF attempt = 0
       THEN messages = <<Msg("user", "user_prompt", <<>>, "")>>
       ELSE /\ Len(outputs) = attempt
            /\ messages = <<Msg("user", "user_prompt", <<>>, ""),
                            Msg("assistant", "raw", outputs[attempt], ""),
                            Msg("user", "repair_request", <<>>,
                                RecordedError[outputs[attempt]])>>

\* C24: attempt 0 sends one user message, the user prompt; every later attempt k
\* sends three messages, the user prompt, the raw reply of attempt k-1 as
\* assistant and a repair instruction quoting the error recorded for attempt k-1;
\* every attempt of a call has the same user prompt and the same augmented
\* system prompt.
C24_AttemptMessages ==
    [][/\ pc' # "awaiting" \/ AttemptSendsAsClaimed'
       /\ (pc # "awaiting" \/ pc' # "awaiting") \/
              (prompt' = prompt /\ system_prompt' = system_prompt)]_vars

\* C24 witness: the third attempt of a call is awaited, after two different
\* replies with different errors; its messages quote the second.
C24_Witness ==
    /\ pc = "awaiting"
    /\ attempt = 2
    /\ outputs[1] # outputs[2]
    /\ RecordedError[outputs[1]] # RecordedError[outputs[2]]
    /\ messages[2].text = outputs[2]
    /\ messages[3].error = RecordedError[outputs[2]]
    /\ call.kind = "guard"


(***************************************************************************)
(* Further claims about sanitization (checked under Spec).                 *)
(***************************************************************************)
\* The position of an id in a list of ids without repeats, 0 if it is absent.
PositionOf(id, ids) ==
    IF id \in Range(ids) THEN CHOOSE i \in 1..Len(ids) : ids[i] = id ELSE 0

\* C25: when a temporal reference is present (in the message, or flagged by the
\* temporal_reference entity of the winning decision) and get_current_datetime is
\* allowed, sanitization puts get_current_datetime in front of the tools of the
\* decision, also when the decision proposed it at a later position: in the list
\* returned it comes before every tool that the decision proposed.
C25_DatetimeInFront ==
    (/\ RouteReturned
     /\ sanitize_temporal(call.message, Winner)
     /\ Allowed("get_current_datetime")) =>
        /\ "get_current_datetime" \in Range(result.decision.candidate_tools)
        /\ \A i \in 1..Len(Winner.candidate_tools) :
               LET tool == Winner.candidate_tools[i] IN
               (tool # "get_current_datetime" /\ tool \in Range(result.decision.candidate_tools))
                   => PositionOf("get_current_datetime", result.decision.candidate_tools)
                          < PositionOf(tool, result.decision.candidate_tools)


(***************************************************************************)
(* Claims about the extraction of the first JSON object (checked under     *)
(* SpecExtract)                                                            *)
(***************************************************************************)
\* What the scan has seen after the characters of a text: whether it is inside
\* a string literal, whether the next character is escaped, and the depth of
\* the braces outside string literals.
ScanStep(st, char) ==
    IF st.escaped THEN [st EXCEPT !.escaped = FALSE]
    ELSE IF char = Backslash THEN [st EXCEPT !.escaped = TRUE]
    ELSE IF char = Quote THEN [st EXCEPT !.in_string = ~st.in_string]
    ELSE IF st.in_string THEN st
    ELSE IF char = "{" THEN [st EXCEPT !.depth = st.depth + 1]
    ELSE IF char = "}" THEN [st EXCEPT !.depth = st.depth - 1]
    ELSE st
RECURSIVE ScanAfter(_)
ScanAfter(text) ==
    IF text = <<>> THEN [in_string |-> FALSE, escaped |-> FALSE, depth |-> 0]
    ELSE ScanStep(ScanAfter(SubSeq(text, 1, Len(text) - 1)), text[Len(text)])

\* The positions at which a brace outside string literals closes the object
\* that the first "{" of the text opens.
Least(S) == CHOOSE x \in S : \A y \in S : x <= y
FirstBrace(text) == Least({i \in 1..Len(text) : text[i] = "{"})
ClosesAt(text, start, i) ==
    /\ text[i] = "}"
    /\ ScanAfter(SubSeq(text, start, i)).depth = 0
    /\ ScanAfter(SubSeq(text, start, i - 1)).depth = 1
FirstBalanced(text) ==
    IF \A i \in 1..Len(text) : text[i] # "{" THEN <<>>
    ELSE LET start == FirstBrace(text)
             ends == {i \in start..Len(text) : ClosesAt(text, start, i)}
         IN IF ends = {} THEN <<>> ELSE SubSeq(text, start, Least(ends))
IsBraceSpan(text) == text # <<>> /\ text[1] = "{" /\ text[Len(text)] = "}"

\* C27: when the fence-stripped text is not already a {...} span, extraction
\* returns the substring from the first "{" to the "}" that brings the depth
\* of the braces back to zero, leaving aside braces inside string literals and
\* escaped quotes; the depth is never negative during the scan, and the text
\* noise {"a": "b{c}"} trailing gives {"a": "b{c}"}.
C27_FirstBalancedObject ==
    call.kind = "extract" =>
        LET cleaned == strip_fences(call.message) IN
        /\ ~IsBraceSpan(cleaned) => outputs[1] = FirstBalanced(cleaned)
        /\ (~IsBraceSpan(cleaned) /\ outputs[1] # <<>>) =>
              \A i \in 1..Len(outputs[1]) : ScanAfter(SubSeq(outputs[1], 1, i)).depth >= 0
        /\ call.message = TextNoise =>
              outputs[1] = SubSeq(TextNoise, 3, 15)
C27_Witness ==
    /\ call.kind = "extract"
    /\ call.message = <<"a", "{", Quote, "}", Quote, "}">>
    /\ outputs[1] = <<"{", Quote, "}", Quote, "}">>


(***************************************************************************)
(* Claims about local repair within the guard (checked under Spec)         *)
(***************************************************************************)
\* Replies that are a schema-valid object inside fences, inside prose, or with
\* a comma before a closing brace.
TolerableReplies == {ReplyFenced, ReplyClarify, ReplyBraceProse}
ReceivedTolerable ==
    /\ pc = "awaiting"
    /\ outputs' # outputs
    /\ outputs' # <<>>
    /\ outputs'[Len(outputs')] \in TolerableReplies

\* C26: a reply that is a schema-valid object wrapped in fences, surrounded by
\* prose or carrying trailing commas is accepted on the attempt that received
\* it: generate_validated_json returns the parsed value and makes no other
\* model call.
C26_RepairedWithoutAnotherCall ==
    [][ReceivedTolerable =>
           /\ pc' = "idle"
           /\ llm_calls' = llm_calls
           /\ result'.status = "returned"
           /\ result'.decision # NoneDecision]_vars


(***************************************************************************)
(* Claims about a failing model client (checked under Spec)                *)
(***************************************************************************)
ClientFailed == pc = "awaiting" /\ result'.raised = ClientError

\* C30: when the model client call raises during an attempt, the failure is
\* not caught: it leaves generate_validated_json and route(), no other
\* attempt is made, the replies recorded so far do not reach the caller, and
\* no heuristic decision is returned.
C30_ClientFailurePropagates ==
    [][ClientFailed =>
           /\ pc' = "idle"
           /\ result'.status = "raised"
           /\ result'.decision = NoneDecision
           /\ outputs' = <<>>
           /\ llm_calls' = llm_calls
           /\ attempt' = attempt]_vars
C30_Witness ==
    /\ call.kind = "route"
    /\ pc = "idle"
    /\ result.status = "raised"
    /\ result.raised = ClientError
    /\ llm_calls = 2
    /\ outputs = <<>>


(***************************************************************************)
(* Claims about the confidence of the returned decision (checked under     *)
(* Spec)                                                                   *)
(***************************************************************************)
FusionThreshold == float_max(float_of(35), float_sub(heuristic.confidence, float_of(10)))

\* C29: every decision route() returns has confidence >= 0.45: the heuristic
\* confidence is >= 0.55, the fusion threshold is the heuristic confidence
\* less 0.10 and is >= 0.45, a semantic decision with confidence below 0.45
\* does not win, and neither the 0.35 floor nor the 0.05 clamp takes effect.
C29_ConfidenceAtLeast045 ==
    RouteReturned =>
        /\ float_ge(result.decision.confidence, float_of(45))
        /\ float_ge(heuristic.confidence, float_of(55))
        /\ FusionThreshold = float_sub(heuristic.confidence, float_of(10))
        /\ float_ge(FusionThreshold, float_of(45))
        /\ (result.semantic # NoneDecision
              /\ float_lt(result.semantic.confidence, float_of(45)))
             => /\ ~semantic_wins(heuristic, result.semantic)
                /\ result.decision.intent = heuristic.intent
                /\ result.decision.confidence = heuristic.confidence
        /\ result.decision.confidence = Winner.confidence
C29_Witness ==
    /\ RouteReturned
    /\ result.semantic # NoneDecision
    /\ result.semantic.confidence = float_of(44)
    /\ heuristic.confidence = float_of(55)
    /\ result.decision.intent = "general_chat"
    /\ result.decision.confidence = float_of(55)


(***************************************************************************)
(* Claims about reloads during a route() call (checked under Spec)         *)
(***************************************************************************)
\* A route() call waits for the model while the registry no longer is the one
\* whose tools the prompt lists: a reload has come in between.
ReloadedWhileAwaiting ==
    call.kind = "route" /\ pc = "awaiting" /\ prompt.allowed_tools # all_ids
ReplyArrives == pc' = "idle" /\ result'.status # "abandoned" /\ result'.raised # ClientError

\* C28: when a reload comes between the tool enumeration of the semantic pass
\* and sanitization, an empty new snapshot included, route() returns a decision
\* without raising and its candidate_tools hold only ids allowed by the
\* snapshots read during sanitization; a later route() call uses the new
\* snapshot.
C28_ReloadDuringRoute ==
    [][/\ (ReloadedWhileAwaiting /\ ReplyArrives) =>
            /\ result'.status = "returned"
            /\ result'.decision # NoneDecision
            /\ result'.keys = registry_keys
            /\ \A i \in 1..Len(result'.decision.candidate_tools) :
                  /\ result'.decision.candidate_tools[i] \in result'.keys
                  /\ result'.decision.candidate_tools[i] \in result'.scope
       /\ (RouteStarts /\ pc' = "awaiting") => prompt'.allowed_tools = all_ids
       /\ (RouteStarts /\ pc' = "idle") => result'.keys = registry_keys]_vars

====
